---- MODULE Spec2Model ----
(***************************************************************************)
(* Access-token lifecycle and request-admission core of magento_ua:        *)
(*   auth/token_provider.py   TokenProvider (cooperative and blocking)     *)
(*   network/rate_limiter.py  TokenBucket, RateLimiter                     *)
(*   network/retry.py         RetryStrategy and its variants               *)
(*   endpoints/base.py        BaseEndpoint._request / _request_sync        *)
(*   core/base_client.py      BaseClient.get_auth_headers                  *)
(*   core/http_adapter.py     HttpAdapter.request / request_sync           *)
(* Python strings are sequences of one-character strings; None is a value  *)
(* that is no string (NoneStr) or no number (NoneNum).                     *)
(***************************************************************************)
EXTENDS Integers, Sequences, FiniteSets, TLC

VARIABLES
    \* ---- TokenProvider ----
    token,             \* self._token
    token_expires_at,  \* self._token_expires_at
    token_lock,        \* self._token_lock (asyncio.Lock): its holder, or NoOne
    sync_token_lock,   \* self._sync_token_lock (a bool flag)
    token_ttl,         \* self.token_ttl
    http_adapter,      \* self.http_adapter is not None
    clock,             \* time.time()
    pc,                \* each caller's position
    op,                \* each caller's call: "get", "force", "inval"
    result,            \* what each caller's get_token returned
    serial,            \* the number of the token-issuance call a caller made (0: none)
    authCalls,         \* number of http_adapter.post / post_sync calls made
    issued,            \* history: the <<token, expiry>> pairs stored by refreshes
    arrivedBusy        \* history: the caller called while another was in the body

    \* ---- TokenBucket / RateLimiter ----
VARIABLES
    requests_per_minute, \* RateLimiter.requests_per_minute; refill_rate is this / 60
    capacity,          \* TokenBucket.capacity (RateLimiter.burst_size)
    tokens60,          \* TokenBucket.tokens, in sixtieths of a token
    last_refill,       \* TokenBucket.last_refill
    rl_lock,           \* RateLimiter._lock (asyncio.Lock): its holder, or NoOne
    rpc,               \* each limiter caller's position
    phase,             \* which method's _refill a caller is in: "consume" or "wait"
    want,              \* the argument `tokens` of a caller's acquire / consume
    now_l,             \* _refill's local `now`
    add60,             \* _refill's local `tokens_to_add`, in sixtieths
    need60,            \* the wait_time a caller sleeps for, as sixtieths of a token to refill
    slept_at,          \* the time a caller's sleep began
    ret,               \* what a caller's last consume / wait_time call returned
    admitted60         \* history: units admitted so far, in sixtieths

rlVars == <<requests_per_minute, capacity, tokens60, last_refill, rl_lock, rpc,
            phase, want, now_l, add60, need60, slept_at, ret, admitted60>>

    \* ---- RetryStrategy ----
VARIABLES
    strategy,          \* the RetryStrategy instance: its fields
    surface,           \* "async" (execute_async) or "sync" (execute_sync)
    rtPc,              \* position of the execute call
    attempt,           \* the loop variable `attempt`
    invocations,       \* number of times func was invoked
    failures,          \* history: the exception each failed invocation raised
    sleeps,            \* history: the delays slept, in delay units
    last_exception,    \* the local `last_exception`
    raised             \* the exception execute raised to its caller

rtVars == <<strategy, surface, rtPc, attempt, invocations, failures, sleeps,
            last_exception, raised>>

    \* ---- BaseEndpoint / BaseClient / HttpAdapter: one client's API calls ----
VARIABLES
    initialized,       \* BaseClient._initialized
    max_retries,       \* HttpAdapter.max_retries
    reqPc,             \* position of the logical API call (_request / _request_sync)
    reqSurface,        \* "async" (_request) or "sync" (_request_sync)
    reqAttempt,        \* the loop variable `attempt` of HttpAdapter.request
    reqCalls,          \* number of logical API calls started
    reqLog,            \* history: what the current call has done, in order
    reqSleeps,         \* history: the seconds slept between transport attempts
    reqRaised          \* the exception the call raised to its caller

reqVars == <<initialized, max_retries, reqPc, reqSurface, reqAttempt, reqCalls,
             reqLog, reqSleeps, reqRaised>>

    \* ---- a reader of the token cache ----
VARIABLES
    observed           \* what the last get_token_info() call returned

    \* ---- one sequence of operations run through both surfaces ----
VARIABLES
    script,            \* the sequence: each operation, what the upstream
                       \* answers it, the clock ticks before it
    first              \* history: what running it on the cooperative surface gave

twinVars == <<script, first>>

    \* ---- Settings ----
VARIABLES
    settings           \* the arguments of one Settings(...) call and how it ended

tokVars == <<token, token_expires_at, token_lock, sync_token_lock, token_ttl,
             http_adapter, clock, pc, op, result, serial, authCalls, issued,
             arrivedBusy>>

cfgVars == <<token_ttl, http_adapter>>

\* What the TokenProvider's actions leave alone
otherVars == <<rlVars, rtVars, reqVars, observed, twinVars, settings>>

\* What the limiter's actions leave alone
notRlVars == <<token, token_expires_at, token_lock, sync_token_lock, cfgVars,
               pc, op, result, serial, authCalls, issued, arrivedBusy, rtVars,
               reqVars, observed, twinVars, settings>>

\* What the retry loop's actions leave alone
notRtVars == <<tokVars, rlVars, reqVars, observed, twinVars, settings>>

vars == <<tokVars, rlVars, rtVars, reqVars, observed, twinVars, settings>>

-----------------------------------------------------------------------------
(* Bounds of the model *)
NumTasks == 3
NumThreads == 2
NumMixedTasks == 2
NumMixedThreads == 1
StartTime == 1000
TickStep == 70
MaxTicks == 2
TtlShort == 60
TtlLong == 200

NumRlTasks == 2
NumRlThreads == 1
MaxBurst == 2
MaxWant == 2
MaxElapsed == 3

MaxAttempts == 3
JitterSteps == 2

MaxRetries == 2
MaxRequests == 2

MaxKeyLen == 34

(* Program constants *)
SafetyMargin == 60
\* settings.py 98: the length an encryption key must have
KeyLength == 32
\* rate_limiter.py 72: refill_rate = requests_per_minute / 60.0
PerMinute == 60

Tasks == {<<"task", i>> : i \in 1..NumTasks}
Threads == {<<"thread", i>> : i \in 1..NumThreads}
Callers == Tasks \cup Threads
NoOne == <<"none", 0>>

NoneStr == <<"None">>
NoneNum == -1
Quote == "\""

-----------------------------------------------------------------------------
(* Pure helpers *)

\* str.strip('"'): every leading and every trailing quote character is removed
RECURSIVE LStrip(_)
LStrip(s) == IF s # <<>> /\ Head(s) = Quote THEN LStrip(Tail(s)) ELSE s

RECURSIVE RStrip(_)
RStrip(s) == IF s # <<>> /\ s[Len(s)] = Quote THEN RStrip(SubSeq(s, 1, Len(s) - 1)) ELSE s

Strip(s) == RStrip(LStrip(s))

Min(a, b) == IF a <= b THEN a ELSE b

\* bool(x) for a string or None, and for a number or None
TruthyStr(s) == s # NoneStr /\ s # <<>>
TruthyNum(x) == x # NoneNum /\ x # 0

\* The token text the upstream issues on its n-th issuance
TokenText(n) == <<"t", ToString(n)>>

\* What http_adapter.post can give back for the n-th issuance: a response
\* (HttpAdapter.request returns response.json() or {"content": response.text})
\* or a raised exception
Answers == {"quoted", "content", "empty", "raise"}

ResponseAs(n, a) ==
    CASE a = "quoted" ->
            [kind |-> "str", text |-> <<Quote>> \o TokenText(n) \o <<Quote>>]
      [] a = "content" -> [kind |-> "content", text |-> TokenText(n)]
      [] a = "empty" -> [kind |-> "str", text |-> <<Quote, Quote>>]
      [] a = "bare" -> [kind |-> "str", text |-> TokenText(n)]
      [] a = "doubled" ->
            [kind |-> "str",
             text |-> <<Quote, Quote>> \o TokenText(n) \o <<Quote, Quote>>]
      [] a = "content_quoted" ->
            [kind |-> "content", text |-> <<Quote>> \o TokenText(n) \o <<Quote>>]
      [] a = "content_doubled" ->
            [kind |-> "content",
             text |-> <<Quote, Quote>> \o TokenText(n) \o <<Quote, Quote>>]
      [] OTHER -> [kind |-> "raise", text |-> <<>>]

Responses(n) == {ResponseAs(n, a) : a \in Answers}

\* token_provider.py 92-97: the token taken from a response
ExtractToken(r) == Strip(r.text)

\* Mutant of RefreshFails: whatever string the response holds is a token
RefreshFailsOnRaise(r) == r.kind = "raise"

\* token_provider.py 85-108: whether _refresh_token raises for this response
RefreshFails(r) == r.kind = "raise" \/ ~TruthyStr(ExtractToken(r))

\* Mutant of IsTokenValidAt: the token still counts as valid at the instant
\* expiry - 60
IsTokenValidAtInclusive(tok, exp, now) ==
    IF ~TruthyStr(tok) \/ ~TruthyNum(exp) THEN FALSE
    ELSE now <= exp - SafetyMargin

\* token_provider.py 66-72
IsTokenValidAt(tok, exp, now) ==
    IF ~TruthyStr(tok) \/ ~TruthyNum(exp) THEN FALSE
    ELSE now < exp - SafetyMargin

is_token_valid == IsTokenValidAt(token, token_expires_at, clock)

-----------------------------------------------------------------------------
(* TokenProvider: initial state, token_provider.py 17-39 *)

TokInit ==
    /\ token = NoneStr
    /\ token_expires_at = NoneNum
    /\ token_lock = NoOne
    /\ sync_token_lock = FALSE
    /\ token_ttl \in {TtlShort, TtlLong}
    /\ http_adapter \in BOOLEAN
    /\ clock = StartTime
    /\ pc = [c \in Callers |-> "idle"]
    /\ op = [c \in Callers |-> "none"]
    /\ result = [c \in Callers |-> NoneStr]
    /\ serial = [c \in Callers |-> 0]
    /\ authCalls = 0
    /\ issued = <<>>
    /\ arrivedBusy = [c \in Callers |-> FALSE]

\* The provider of a scenario that is about another component: as constructed
\* by BaseClient (base_client.py 36-41), and never called
TokOff ==
    /\ TokInit
    /\ token_ttl = TtlLong
    /\ http_adapter

\* The event loop runs one task at a time: a task that has resumed runs to its
\* next await before any other task runs.
MidSlice == {"set_exp", "ret", "clr_exp"}
LoopBusy == \E t \in Tasks : pc[t] \in MidSlice

Ops == {"get", "force", "inval"}

\* Mutant of BodyPc: the cache is not looked at again once the guard is held,
\* so a caller that waited for a refresh refreshes again
BodyPcNoRecheck(o) ==
    IF o = "inval" THEN "clr_exp"
    ELSE IF ~http_adapter THEN "failed"
    ELSE "post"

\* The body run once the guard is held (token_provider.py 44-47 / 58-61 and
\* 149 / 159), up to the transport call: the caller's next position
BodyPc(o) ==
    IF o = "inval" THEN "clr_exp"
    ELSE IF o = "get" /\ is_token_valid THEN "ret"
    ELSE IF ~http_adapter THEN "failed"
    ELSE "post"

\* A caller that holds a guard and is running the guarded body
InBody(c) == pc[c] \in {"post", "set_exp", "ret", "clr_exp"}

\* A caller whose refresh is in flight: the transport call is out, or its
\* result is being stored
Refreshing(c) == pc[c] \in {"post", "set_exp"}

\* Mutant of EnterBody: an invalidation leaves the credential in place
EnterBodyKeepsToken(c, o) ==
    /\ pc' = [pc EXCEPT ![c] = BodyPc(o)]
    /\ token' = token
    /\ authCalls' = IF BodyPc(o) = "post" THEN authCalls + 1 ELSE authCalls
    /\ serial' = [serial EXCEPT ![c] = IF BodyPc(o) = "post" THEN authCalls + 1 ELSE 0]

\* The shared-state part of entering the body with the guard held
EnterBody(c, o) ==
    /\ pc' = [pc EXCEPT ![c] = BodyPc(o)]
    /\ token' = IF o = "inval" THEN NoneStr ELSE token
    /\ authCalls' = IF BodyPc(o) = "post" THEN authCalls + 1 ELSE authCalls
    /\ serial' = [serial EXCEPT ![c] = IF BodyPc(o) = "post" THEN authCalls + 1 ELSE 0]

\* Callers of one kind run the same code, so they are numbered in the order
\* in which they call
CallsNext(c) == \A d \in Callers : (d[1] = c[1] /\ d[2] < c[2]) => pc[d] # "idle"

(* ---- cooperative surface: get_token / invalidate_token ---- *)

\* Mutant of LockAfterWith: the lock stays with the task that held it
LockAfterWithHeld(t) == t

\* token_provider.py 43, 148: what self._token_lock is once task t has left the
\* `async with` block, by a return or by an exception
LockAfterWith(t) == NoOne

\* token_provider.py 41-43, 146-148: a task calls; `async with self._token_lock`
\* takes the free lock without suspending, or suspends the task
AsyncCall(t, o) ==
    /\ pc[t] = "idle" /\ ~LoopBusy /\ CallsNext(t)
    /\ op' = [op EXCEPT ![t] = o]
    /\ arrivedBusy' = [arrivedBusy EXCEPT ![t] = \E d \in Callers : InBody(d)]
    /\ IF token_lock = NoOne
       THEN /\ EnterBody(t, o)
            /\ token_lock' = IF BodyPc(o) = "failed" THEN LockAfterWith(t) ELSE t
       ELSE /\ pc' = [pc EXCEPT ![t] = "wait"]
            /\ UNCHANGED <<token, token_lock, serial, authCalls>>
    /\ UNCHANGED <<token_expires_at, sync_token_lock, cfgVars, clock, result, issued>>
    /\ UNCHANGED otherVars

\* A suspended task gets the released lock and runs the body
AsyncWake(t) ==
    /\ pc[t] = "wait" /\ ~LoopBusy
    /\ token_lock = NoOne
    /\ EnterBody(t, op[t])
    /\ token_lock' = IF BodyPc(op[t]) = "failed" THEN LockAfterWith(t) ELSE t
    /\ UNCHANGED <<token_expires_at, sync_token_lock, cfgVars, clock, op, result,
                   issued, arrivedBusy>>
    /\ UNCHANGED otherVars

\* token_provider.py 91-108: what _refresh_token does with the post's answer
AsyncRefreshEnds(t, r) ==
    /\ IF RefreshFails(r)
       THEN /\ pc' = [pc EXCEPT ![t] = "failed"]
            /\ token_lock' = LockAfterWith(t)
            /\ UNCHANGED token
       ELSE /\ pc' = [pc EXCEPT ![t] = "set_exp"]
            /\ token' = ExtractToken(r)
            /\ UNCHANGED token_lock
    /\ UNCHANGED <<token_expires_at, sync_token_lock, cfgVars, clock, op, result,
                   serial, authCalls, issued, arrivedBusy>>

\* token_provider.py 86-108: the awaited post returns or raises
AsyncReply(t, r) ==
    /\ pc[t] = "post" /\ ~LoopBusy
    /\ AsyncRefreshEnds(t, r)
    /\ UNCHANGED otherVars

\* token_provider.py 103
AsyncSetExpiry(t) ==
    /\ pc[t] = "set_exp"
    /\ token_expires_at' = clock + token_ttl
    /\ issued' = Append(issued, <<token, clock + token_ttl>>)
    /\ pc' = [pc EXCEPT ![t] = "ret"]
    /\ UNCHANGED <<token, token_lock, sync_token_lock, cfgVars, clock, op, result,
                   serial, authCalls, arrivedBusy>>
    /\ UNCHANGED otherVars

\* token_provider.py 45 / 48: return self._token, leaving the `async with`
AsyncReturn(t) ==
    /\ pc[t] = "ret"
    /\ result' = [result EXCEPT ![t] = token]
    /\ token_lock' = LockAfterWith(t)
    /\ pc' = [pc EXCEPT ![t] = "done"]
    /\ UNCHANGED <<token, token_expires_at, sync_token_lock, cfgVars, clock, op,
                   serial, authCalls, issued, arrivedBusy>>
    /\ UNCHANGED otherVars

\* token_provider.py 150
AsyncClearExpiry(t) ==
    /\ pc[t] = "clr_exp"
    /\ token_expires_at' = NoneNum
    /\ token_lock' = LockAfterWith(t)
    /\ pc' = [pc EXCEPT ![t] = "done"]
    /\ UNCHANGED <<token, sync_token_lock, cfgVars, clock, op, result, serial,
                   authCalls, issued, arrivedBusy>>
    /\ UNCHANGED otherVars

(* ---- blocking surface: get_token_sync / invalidate_token_sync ---- *)

\* token_provider.py 50, 152: a thread calls
SyncCall(h, o) ==
    /\ pc[h] = "idle" /\ CallsNext(h)
    /\ op' = [op EXCEPT ![h] = o]
    /\ arrivedBusy' = [arrivedBusy EXCEPT ![h] = \E d \in Callers : InBody(d)]
    /\ pc' = [pc EXCEPT ![h] = "spin"]
    /\ UNCHANGED <<token, token_expires_at, token_lock, sync_token_lock, cfgVars,
                   clock, result, serial, authCalls, issued>>
    /\ UNCHANGED otherVars

\* token_provider.py 53-54, 154-155: the loop test reads the flag as False
SyncSpin(h) ==
    /\ pc[h] = "spin"
    /\ ~sync_token_lock
    /\ pc' = [pc EXCEPT ![h] = "take"]
    /\ UNCHANGED <<token, token_expires_at, token_lock, sync_token_lock, cfgVars,
                   clock, op, result, serial, authCalls, issued, arrivedBusy>>
    /\ UNCHANGED otherVars

\* token_provider.py 56-61, 157-159: set the flag, run the body; the `finally`
\* of a body that raises at once clears the flag again
SyncTake(h) ==
    /\ pc[h] = "take"
    /\ EnterBody(h, op[h])
    /\ sync_token_lock' = (BodyPc(op[h]) # "failed")
    /\ UNCHANGED <<token_expires_at, token_lock, cfgVars, clock, op, result,
                   issued, arrivedBusy>>
    /\ UNCHANGED otherVars

\* token_provider.py 127-144, 63-64: what _refresh_token_sync does with the
\* answer of post_sync
SyncRefreshEnds(h, r) ==
    /\ IF RefreshFails(r)
       THEN /\ pc' = [pc EXCEPT ![h] = "failed"]
            /\ sync_token_lock' = FALSE
            /\ UNCHANGED token
       ELSE /\ pc' = [pc EXCEPT ![h] = "set_exp"]
            /\ token' = ExtractToken(r)
            /\ UNCHANGED sync_token_lock
    /\ UNCHANGED <<token_expires_at, token_lock, cfgVars, clock, op, result,
                   serial, authCalls, issued, arrivedBusy>>

\* token_provider.py 122-144: post_sync returns or raises
SyncReply(h, r) ==
    /\ pc[h] = "post"
    /\ SyncRefreshEnds(h, r)
    /\ UNCHANGED otherVars

\* token_provider.py 139
SyncSetExpiry(h) ==
    /\ pc[h] = "set_exp"
    /\ token_expires_at' = clock + token_ttl
    /\ issued' = Append(issued, <<token, clock + token_ttl>>)
    /\ pc' = [pc EXCEPT ![h] = "ret"]
    /\ UNCHANGED <<token, token_lock, sync_token_lock, cfgVars, clock, op, result,
                   serial, authCalls, arrivedBusy>>
    /\ UNCHANGED otherVars

\* token_provider.py 59 / 62-64
SyncReturn(h) ==
    /\ pc[h] = "ret"
    /\ result' = [result EXCEPT ![h] = token]
    /\ sync_token_lock' = FALSE
    /\ pc' = [pc EXCEPT ![h] = "done"]
    /\ UNCHANGED <<token, token_expires_at, token_lock, cfgVars, clock, op,
                   serial, authCalls, issued, arrivedBusy>>
    /\ UNCHANGED otherVars

\* Mutant of SyncClearExpiry: the expiry is left in place
SyncClearExpiryKept(h) ==
    /\ pc[h] = "clr_exp"
    /\ sync_token_lock' = FALSE
    /\ pc' = [pc EXCEPT ![h] = "done"]
    /\ UNCHANGED <<token, token_expires_at, token_lock, cfgVars, clock, op, result,
                   serial, authCalls, issued, arrivedBusy>>
    /\ UNCHANGED otherVars

\* token_provider.py 160-162
SyncClearExpiry(h) ==
    /\ pc[h] = "clr_exp"
    /\ token_expires_at' = NoneNum
    /\ sync_token_lock' = FALSE
    /\ pc' = [pc EXCEPT ![h] = "done"]
    /\ UNCHANGED <<token, token_lock, cfgVars, clock, op, result, serial,
                   authCalls, issued, arrivedBusy>>
    /\ UNCHANGED otherVars

\* time.time() moves on
Tick ==
    /\ clock < StartTime + MaxTicks * TickStep
    /\ clock' = clock + TickStep
    /\ UNCHANGED <<token, token_expires_at, token_lock, sync_token_lock, cfgVars,
                   pc, op, result, serial, authCalls, issued, arrivedBusy>>
    /\ UNCHANGED otherVars

-----------------------------------------------------------------------------
(* TokenBucket and RateLimiter, network/rate_limiter.py.  Token amounts are
   kept in sixtieths of a token, so that elapsed * refill_rate, with
   refill_rate = requests_per_minute / 60, is exact for whole seconds. *)

RlTasks == {<<"task", i>> : i \in 1..NumRlTasks}
RlThreads == {<<"thread", i>> : i \in 1..NumRlThreads}
RlCallers == RlTasks \cup RlThreads
\* The one caller of the sequential TokenBucket scenario
BucketUser == <<"task", 1>>

\* The rates and burst sizes tried: RateLimiter(requests_per_minute, burst_size)
RateChoices == {PerMinute, PerMinute \div 2}

\* rate_limiter.py 9-21 and 56-79: a limiter as constructed
RlInit ==
    /\ requests_per_minute \in RateChoices
    /\ capacity \in 1..MaxBurst
    /\ tokens60 = capacity * PerMinute
    /\ last_refill = clock
    /\ rl_lock = NoOne
    /\ rpc = [c \in RlCallers |-> "idle"]
    /\ phase = [c \in RlCallers |-> "none"]
    /\ want = [c \in RlCallers |-> 0]
    /\ now_l = [c \in RlCallers |-> 0]
    /\ add60 = [c \in RlCallers |-> 0]
    /\ need60 = [c \in RlCallers |-> 0]
    /\ slept_at = [c \in RlCallers |-> 0]
    /\ ret = [c \in RlCallers |-> "none"]
    /\ admitted60 = 0

\* The limiter of a scenario that is about another component: never called
RlOff ==
    /\ RlInit
    /\ requests_per_minute = PerMinute
    /\ capacity = 1

\* rate_limiter.py 29: tokens_to_add = elapsed * self.refill_rate
TokensToAdd(now, last) == (now - last) * requests_per_minute

\* Mutant of RefillTo: the refill is not capped at capacity
RefillToUncapped(cur, add) == cur + add

\* rate_limiter.py 30: min(self.capacity, self.tokens + tokens_to_add)
RefillTo(cur, add) == Min(capacity * PerMinute, cur + add)

\* Mutant of Enough: the bucket always has what is asked for
EnoughAlways(cur, n) == TRUE

\* rate_limiter.py 37 / 46: self.tokens >= tokens
Enough(cur, n) == cur >= n * PerMinute

\* The event loop runs one task at a time: a task inside consume / wait_time
\* runs on to its next await (the lock, the sleep) or to its return
RlSuspended == {"idle", "lockwait", "sleep", "done", "cancelled"}
RlLoopBusy == \E t \in RlTasks : rpc[t] \notin RlSuspended
MayRun(c) == c \in RlTasks => ~RlLoopBusy

\* Entering TokenBucket.consume or wait_time: the next step is _refill
StartRefill(c, ph) ==
    /\ rpc' = [rpc EXCEPT ![c] = "r1"]
    /\ phase' = [phase EXCEPT ![c] = ph]

\* rate_limiter.py 33 / 42: TokenBucket.consume(n) or wait_time(n) called directly
BucketCall(c, m, n) ==
    /\ rpc[c] = "idle" /\ MayRun(c)
    /\ StartRefill(c, m)
    /\ want' = [want EXCEPT ![c] = n]
    /\ ret' = [ret EXCEPT ![c] = "none"]
    /\ UNCHANGED <<requests_per_minute, capacity, tokens60, last_refill, rl_lock,
                   now_l, add60, need60, slept_at, admitted60>>
    /\ UNCHANGED <<clock, notRlVars>>

\* rate_limiter.py 81-84: acquire(n); `async with self._lock` takes the free
\* lock without suspending, or suspends the task
Acquire(t, n) ==
    /\ rpc[t] = "idle" /\ MayRun(t)
    /\ want' = [want EXCEPT ![t] = n]
    /\ ret' = [ret EXCEPT ![t] = "acquiring"]
    /\ IF rl_lock = NoOne
       THEN /\ rl_lock' = t
            /\ StartRefill(t, "consume")
       ELSE /\ rpc' = [rpc EXCEPT ![t] = "lockwait"]
            /\ UNCHANGED <<rl_lock, phase>>
    /\ UNCHANGED <<requests_per_minute, capacity, tokens60, last_refill,
                   now_l, add60, need60, slept_at, admitted60>>
    /\ UNCHANGED <<clock, notRlVars>>

\* Mutant of AcquireWake: a suspended task enters the loop whoever holds the lock
AcquireWakeUnlocked(t) ==
    /\ rpc[t] = "lockwait" /\ MayRun(t)
    /\ rl_lock' = t
    /\ StartRefill(t, "consume")
    /\ UNCHANGED <<requests_per_minute, capacity, tokens60, last_refill, want,
                   now_l, add60, need60, slept_at, ret, admitted60>>
    /\ UNCHANGED <<clock, notRlVars>>

\* A suspended task gets the released lock and enters the loop
AcquireWake(t) ==
    /\ rpc[t] = "lockwait" /\ MayRun(t)
    /\ rl_lock = NoOne
    /\ rl_lock' = t
    /\ StartRefill(t, "consume")
    /\ UNCHANGED <<requests_per_minute, capacity, tokens60, last_refill, want,
                   now_l, add60, need60, slept_at, ret, admitted60>>
    /\ UNCHANGED <<clock, notRlVars>>

\* rate_limiter.py 89-91: acquire_sync(n) enters the loop at once
AcquireSync(h, n) ==
    /\ rpc[h] = "idle"
    /\ want' = [want EXCEPT ![h] = n]
    /\ ret' = [ret EXCEPT ![h] = "acquiring"]
    /\ StartRefill(h, "consume")
    /\ UNCHANGED <<requests_per_minute, capacity, tokens60, last_refill, rl_lock,
                   now_l, add60, need60, slept_at, admitted60>>
    /\ UNCHANGED <<clock, notRlVars>>

\* rate_limiter.py 25-29: now, elapsed, tokens_to_add
RefillRead(c) ==
    /\ rpc[c] = "r1"
    /\ now_l' = [now_l EXCEPT ![c] = clock]
    /\ add60' = [add60 EXCEPT ![c] = TokensToAdd(clock, last_refill)]
    /\ rpc' = [rpc EXCEPT ![c] = "r2"]
    /\ UNCHANGED <<requests_per_minute, capacity, tokens60, last_refill, rl_lock,
                   phase, want, need60, slept_at, ret, admitted60>>
    /\ UNCHANGED <<clock, notRlVars>>

\* rate_limiter.py 30
RefillStore(c) ==
    /\ rpc[c] = "r2"
    /\ tokens60' = RefillTo(tokens60, add60[c])
    /\ rpc' = [rpc EXCEPT ![c] = "r3"]
    /\ UNCHANGED <<requests_per_minute, capacity, last_refill, rl_lock, phase,
                   want, now_l, add60, need60, slept_at, ret, admitted60>>
    /\ UNCHANGED <<clock, notRlVars>>

\* rate_limiter.py 31
RefillStamp(c) ==
    /\ rpc[c] = "r3"
    /\ last_refill' = now_l[c]
    /\ rpc' = [rpc EXCEPT ![c] = "chk"]
    /\ now_l' = [now_l EXCEPT ![c] = 0]
    /\ add60' = [add60 EXCEPT ![c] = 0]
    /\ UNCHANGED <<requests_per_minute, capacity, tokens60, rl_lock, phase,
                   want, need60, slept_at, ret, admitted60>>
    /\ UNCHANGED <<clock, notRlVars>>

\* Whether the caller is inside acquire / acquire_sync
Acquiring(c) == ret[c] = "acquiring"

\* Mutant of ConsumeTest: a consume that fails takes what tokens there are
ConsumeTestTakesRest(c) ==
    /\ rpc[c] = "chk" /\ phase[c] = "consume"
    /\ IF Enough(tokens60, want[c])
       THEN /\ rpc' = [rpc EXCEPT ![c] = "sub"]
            /\ UNCHANGED <<phase, ret, tokens60>>
       ELSE IF Acquiring(c)
       THEN /\ StartRefill(c, "wait")
            /\ tokens60' = 0
            /\ UNCHANGED ret
       ELSE /\ rpc' = [rpc EXCEPT ![c] = "idle"]
            /\ ret' = [ret EXCEPT ![c] = "False"]
            /\ tokens60' = 0
            /\ UNCHANGED phase
    /\ UNCHANGED <<requests_per_minute, capacity, last_refill, rl_lock,
                   want, now_l, add60, need60, slept_at, admitted60>>
    /\ UNCHANGED <<clock, notRlVars>>

\* rate_limiter.py 37, 40: the test of consume; a False answer returns to the
\* direct caller, or sends acquire's loop on to wait_time (84-85, 91-92)
ConsumeTest(c) ==
    /\ rpc[c] = "chk" /\ phase[c] = "consume"
    /\ IF Enough(tokens60, want[c])
       THEN /\ rpc' = [rpc EXCEPT ![c] = "sub"]
            /\ UNCHANGED <<phase, ret>>
       ELSE IF Acquiring(c)
       THEN /\ StartRefill(c, "wait")
            /\ UNCHANGED ret
       ELSE /\ rpc' = [rpc EXCEPT ![c] = "idle"]
            /\ ret' = [ret EXCEPT ![c] = "False"]
            /\ UNCHANGED phase
    /\ UNCHANGED <<requests_per_minute, capacity, tokens60, last_refill, rl_lock,
                   want, now_l, add60, need60, slept_at, admitted60>>
    /\ UNCHANGED <<clock, notRlVars>>

\* rate_limiter.py 38-39: self.tokens -= tokens; return True, which ends
\* acquire's loop and leaves its `async with`
ConsumeTake(c) ==
    /\ rpc[c] = "sub"
    /\ tokens60' = tokens60 - want[c] * PerMinute
    /\ admitted60' = admitted60 + want[c] * PerMinute
    /\ rpc' = [rpc EXCEPT ![c] = IF Acquiring(c) THEN "done" ELSE "idle"]
    /\ ret' = [ret EXCEPT ![c] = IF Acquiring(c) THEN "admitted" ELSE "True"]
    /\ rl_lock' = IF rl_lock = c THEN NoOne ELSE rl_lock
    /\ UNCHANGED <<requests_per_minute, capacity, last_refill, phase, want,
                   now_l, add60, need60, slept_at>>
    /\ UNCHANGED <<clock, notRlVars>>

\* rate_limiter.py 46-50: the rest of wait_time; acquire sleeps for a positive
\* wait (86-87, 93-94) and otherwise tries consume again
WaitTimeTest(c) ==
    /\ rpc[c] = "chk" /\ phase[c] = "wait"
    /\ LET need == IF Enough(tokens60, want[c]) THEN 0
                   ELSE want[c] * PerMinute - tokens60
       IN /\ need60' = [need60 EXCEPT ![c] = need]
          /\ IF ~Acquiring(c)
             THEN /\ rpc' = [rpc EXCEPT ![c] = "idle"]
                  /\ ret' = [ret EXCEPT ![c] = "waited"]
                  /\ UNCHANGED <<phase, slept_at>>
             ELSE IF need > 0
             THEN /\ rpc' = [rpc EXCEPT ![c] = "sleep"]
                  /\ slept_at' = [slept_at EXCEPT ![c] = clock]
                  /\ UNCHANGED <<phase, ret>>
             ELSE /\ StartRefill(c, "consume")
                  /\ UNCHANGED <<ret, slept_at>>
    /\ UNCHANGED <<requests_per_minute, capacity, tokens60, last_refill, rl_lock,
                   want, now_l, add60, admitted60>>
    /\ UNCHANGED <<clock, notRlVars>>

\* asyncio.sleep / time.sleep(wait_time) is over once wait_time seconds, that
\* is need60 / requests_per_minute, have passed; the loop tries consume again
SleepOver(c) ==
    /\ rpc[c] = "sleep" /\ MayRun(c)
    /\ (clock - slept_at[c]) * requests_per_minute >= need60[c]
    /\ StartRefill(c, "consume")
    /\ need60' = [need60 EXCEPT ![c] = 0]
    /\ slept_at' = [slept_at EXCEPT ![c] = 0]
    /\ UNCHANGED <<requests_per_minute, capacity, tokens60, last_refill, rl_lock,
                   want, now_l, add60, ret, admitted60>>
    /\ UNCHANGED <<clock, notRlVars>>

\* time.time() moves on by whole seconds
RlTick ==
    /\ clock < StartTime + MaxElapsed
    /\ clock' = clock + 1
    /\ UNCHANGED <<rlVars, notRlVars>>

\* The steps inside consume and wait_time, whoever called
BucketStep(c) ==
    \/ RefillRead(c)
    \/ RefillStore(c)
    \/ RefillStamp(c)
    \/ ConsumeTest(c)
    \/ ConsumeTake(c)
    \/ WaitTimeTest(c)

\* One caller using a TokenBucket directly, one call after another
BucketNext ==
    \/ \E m \in {"consume", "wait"}, n \in 1..MaxWant : BucketCall(BucketUser, m, n)
    \/ BucketStep(BucketUser)
    \/ RlTick

\* The same caller passing any integer, zero and negative ones included; the
\* count of admitted tokens is kept from falling without end
AnyAmountNext ==
    \/ \E m \in {"consume", "wait"}, n \in -1..MaxWant :
          /\ n < 0 => admitted60 >= 0
          /\ BucketCall(BucketUser, m, n)
    \/ BucketStep(BucketUser)
    \/ RlTick

\* Tasks calling acquire and threads calling acquire_sync on one limiter
LimiterNext ==
    \/ \E t \in RlTasks, n \in 1..MaxWant : Acquire(t, n)
    \/ \E t \in RlTasks : AcquireWake(t)
    \/ \E h \in RlThreads, n \in 1..MaxWant : AcquireSync(h, n)
    \/ \E c \in RlCallers : BucketStep(c) \/ SleepOver(c)
    \/ RlTick

\* rate_limiter.py 82, 87: the task is cancelled while it waits for the lock
\* or sleeps; CancelledError is raised at the await and leaves acquire, and
\* leaving the `async with` block releases the lock the sleeper holds
CancelAcquire(t) ==
    /\ rpc[t] \in {"lockwait", "sleep"} /\ MayRun(t)
    /\ rpc' = [rpc EXCEPT ![t] = "cancelled"]
    /\ ret' = [ret EXCEPT ![t] = "cancelled"]
    /\ rl_lock' = IF rpc[t] = "sleep" THEN NoOne ELSE rl_lock
    /\ need60' = [need60 EXCEPT ![t] = 0]
    /\ slept_at' = [slept_at EXCEPT ![t] = 0]
    /\ UNCHANGED <<requests_per_minute, capacity, tokens60, last_refill, phase,
                   want, now_l, add60, admitted60>>
    /\ UNCHANGED <<clock, notRlVars>>

\* Calls of acquire and acquire_sync made one after another: a call begins
\* when the call before it has returned
ConsecutiveNext ==
    \/ \E t \in RlTasks, n \in 1..MaxWant :
          (\A c \in RlCallers : rpc[c] \in {"idle", "done"}) /\ Acquire(t, n)
    \/ \E h \in RlThreads, n \in 1..MaxWant :
          (\A c \in RlCallers : rpc[c] \in {"idle", "done"}) /\ AcquireSync(h, n)
    \/ \E c \in RlCallers : BucketStep(c) \/ SleepOver(c)
    \/ RlTick

-----------------------------------------------------------------------------
(* RetryStrategy, network/retry.py.  Delays are kept in units of
   1 / (2 * JitterSteps) second, so that the jitter factor 0.5 + r * 0.5, for
   r = random.random() one of 0, 1/JitterSteps, ..., is exact. *)

DelayUnit == 2 * JitterSteps
Seconds(x) == x * DelayUnit

\* The exception classes used, each with its base class
\* (exceptions/base.py, exceptions/network.py, exceptions/api.py)
Parent(k) ==
    CASE k = "TimeoutError" -> "NetworkError"
      [] k = "ConnectionError" -> "NetworkError"
      [] k = "NetworkError" -> "MagentoNetworkError"
      [] k = "MagentoNetworkError" -> "MagentoError"
      [] k = "ValidationError" -> "APIError"
      [] k = "HTTPError" -> "APIError"
      [] k = "UnauthorizedError" -> "HTTPError"
      [] k = "InternalServerError" -> "HTTPError"
      [] k = "AuthenticationError" -> "APIError"
      [] k = "APIError" -> "MagentoAPIError"
      [] k = "MagentoAPIError" -> "MagentoError"
      [] k = "MagentoError" -> "Exception"
      [] k = "Exception" -> "BaseException"
      [] k = "CancelledError" -> "BaseException"
      [] OTHER -> "object"

\* isinstance(e, cls) for an exception e of class k
RECURSIVE IsInstance(_, _)
IsInstance(k, cls) ==
    IF k = cls THEN TRUE
    ELSE IF k \in {"BaseException", "object"} THEN FALSE
    ELSE IsInstance(Parent(k), cls)

\* What func can raise
Raisable == {"TimeoutError", "ConnectionError", "ValidationError", "CancelledError"}

\* retry.py 18-21: retryable_exceptions, None becoming [Exception]
RetryableChoices ==
    { {"Exception"}, {"NetworkError"}, {"TimeoutError", "HTTPError"} }

\* retry.py 82-89, 106-112, 120-124: the strategies tried
Strategies ==
    [kind : {"exponential"}, max_attempts : 1..MaxAttempts,
     retryable_exceptions : RetryableChoices, base_delay : {1}, multiplier : {2},
     max_delay : {1, 60}, increment : {0}, jitter : BOOLEAN]
    \cup
    [kind : {"linear"}, max_attempts : 1..MaxAttempts,
     retryable_exceptions : RetryableChoices, base_delay : {1}, multiplier : {0},
     max_delay : {2, 10}, increment : {1}, jitter : {FALSE}]
    \cup
    [kind : {"fixed"}, max_attempts : 1..MaxAttempts,
     retryable_exceptions : RetryableChoices, base_delay : {1}, multiplier : {0},
     max_delay : {0}, increment : {0}, jitter : {FALSE}]

NoExc == [kind |-> "None", attempt |-> 0]

\* retry.py 40: an execute call about to start
RtInit ==
    /\ strategy \in Strategies
    /\ surface \in {"async", "sync"}
    /\ rtPc = "call"
    /\ attempt = 1
    /\ invocations = 0
    /\ failures = <<>>
    /\ sleeps = <<>>
    /\ last_exception = NoExc
    /\ raised = NoExc

\* The strategy of a scenario that is about another component: never run
RtOff ==
    /\ strategy = [kind |-> "fixed", max_attempts |-> 1,
                   retryable_exceptions |-> {"Exception"}, base_delay |-> 1,
                   multiplier |-> 0, max_delay |-> 0, increment |-> 0,
                   jitter |-> FALSE]
    /\ surface = "sync"
    /\ rtPc = "off"
    /\ attempt = 1
    /\ invocations = 0
    /\ failures = <<>>
    /\ sleeps = <<>>
    /\ last_exception = NoExc
    /\ raised = NoExc

\* Mutant of Pow: the product, not the power
PowLinear(b, e) == b * e

RECURSIVE Pow(_, _)
Pow(b, e) == IF e = 0 THEN 1 ELSE b * Pow(b, e - 1)

\* Mutant of ExponentialDelay: the exponent is attempt, not attempt - 1
ExponentialDelayLate(st, a) ==
    Min(st.base_delay * Pow(st.multiplier, a), st.max_delay)

\* retry.py 94-97: the exponential delay before jitter, in seconds
ExponentialDelay(st, a) ==
    Min(st.base_delay * Pow(st.multiplier, a - 1), st.max_delay)

\* retry.py 116-117
LinearDelay(st, a) ==
    Min(st.base_delay + st.increment * (a - 1), st.max_delay)

\* Mutant of GetDelay: the jitter factor is random.random() itself
GetDelayFullJitter(st, a) ==
    CASE st.kind = "exponential" ->
           IF st.jitter
           THEN {2 * ExponentialDelay(st, a) * j : j \in 0..(JitterSteps - 1)}
           ELSE {Seconds(ExponentialDelay(st, a))}
      [] st.kind = "linear" -> {Seconds(LinearDelay(st, a))}
      [] OTHER -> {Seconds(st.base_delay)}

\* retry.py 91-103, 114-117, 126-128: the values get_delay(a) can return, in
\* delay units; with jitter, delay * (0.5 + random.random() * 0.5)
GetDelay(st, a) ==
    CASE st.kind = "exponential" ->
           IF st.jitter
           THEN {ExponentialDelay(st, a) * (JitterSteps + j) : j \in 0..(JitterSteps - 1)}
           ELSE {Seconds(ExponentialDelay(st, a))}
      [] st.kind = "linear" -> {Seconds(LinearDelay(st, a))}
      [] OTHER -> {Seconds(st.base_delay)}

\* Mutant of ShouldRetry: the class of the exception is not looked at
ShouldRetryAnyKind(st, k, a) == a < st.max_attempts

\* Mutant of ShouldRetry: the number of the attempt is not looked at
ShouldRetryAnyAttempt(st, k, a) ==
    \E cls \in st.retryable_exceptions : IsInstance(k, cls)

\* retry.py 28-36
ShouldRetry(st, k, a) ==
    IF a >= st.max_attempts THEN FALSE
    ELSE \E cls \in st.retryable_exceptions : IsInstance(k, cls)

\* retry.py 48 / 68: `except Exception` catches the exception
Caught(k) == IsInstance(k, "Exception")

\* Mutant of Reraise: the failure is replaced by a generic wrapper
ReraiseWrapped(e) == [kind |-> "RetryExhaustedError", attempt |-> e.attempt]

\* retry.py 52 / 72: a bare `raise` re-raises the exception being handled
Reraise(e) == e

\* retry.py 42-56 / 65-76: one pass of the loop body; func returns, or raises
\* an exception of class k
Invoke(out) ==
    /\ rtPc = "call"
    /\ invocations' = invocations + 1
    /\ IF out = "return"
       THEN /\ rtPc' = "returned"
            /\ UNCHANGED <<failures, sleeps, last_exception, raised>>
       ELSE LET e == [kind |-> out, attempt |-> attempt]
            IN /\ failures' = Append(failures, e)
               /\ IF ~Caught(out)
                  THEN /\ rtPc' = "raised"
                       /\ raised' = e
                       /\ UNCHANGED <<sleeps, last_exception>>
                  ELSE /\ last_exception' = e
                       /\ IF ~ShouldRetry(strategy, out, attempt)
                          THEN /\ rtPc' = "raised"
                               /\ raised' = Reraise(e)
                               /\ UNCHANGED sleeps
                          ELSE IF attempt < strategy.max_attempts
                          THEN /\ \E d \in GetDelay(strategy, attempt) :
                                      sleeps' = Append(sleeps, d)
                               /\ rtPc' = "sleep"
                               /\ UNCHANGED raised
                          ELSE /\ rtPc' = "next"
                               /\ UNCHANGED <<sleeps, raised>>
    /\ UNCHANGED <<strategy, surface, attempt>>
    /\ UNCHANGED <<clock, notRtVars>>

\* retry.py 38-56: execute_async, func awaited or called
ExecuteAsyncInvoke(out) == surface = "async" /\ Invoke(out)

\* retry.py 61-76: execute_sync
ExecuteSyncInvoke(out) == surface = "sync" /\ Invoke(out)

\* retry.py 42, 56-59 / 65, 76-79: the sleep is over, or was skipped; the loop
\* goes to its next pass, or ends and last_exception is raised
NextAttempt ==
    /\ rtPc \in {"sleep", "next"}
    /\ IF attempt + 1 <= strategy.max_attempts
       THEN /\ attempt' = attempt + 1
            /\ rtPc' = "call"
            /\ UNCHANGED raised
       ELSE /\ rtPc' = "raised"
            /\ raised' = last_exception
            /\ UNCHANGED attempt
    /\ UNCHANGED <<strategy, surface, invocations, failures, sleeps, last_exception>>
    /\ UNCHANGED <<clock, notRtVars>>

RetryNext ==
    \/ \E out \in Raisable \cup {"return"} : ExecuteAsyncInvoke(out)
    \/ \E out \in Raisable \cup {"return"} : ExecuteSyncInvoke(out)
    \/ NextAttempt

-----------------------------------------------------------------------------
(* One client's logical API calls: BaseEndpoint._request / _request_sync
   (endpoints/base.py), BaseClient.get_auth_headers (core/base_client.py),
   MagentoClient.initialize (client.py) and the attempt loop of
   HttpAdapter.request / request_sync (core/http_adapter.py).  The calls are
   made one after another, so each get_token runs with the guard free. *)

\* What the transport (httpx) does with one attempt: a successful response, a
\* response with an error status, or a raised httpx.RequestError
ErrorStatuses == {401, 404, 418, 500}

\* The body of a response with an error status: a JSON object with a
\* "message", a JSON object without one, text that is not JSON, a JSON list
ErrorBodies == {"json_message", "json_plain", "text", "json_list"}

TransportOutcomes ==
    {[kind |-> k, status |-> NoneNum, body |-> "none"] :
        k \in {"ok", "TimeoutException", "ConnectError", "ReadError"}}
    \cup [kind : {"status"}, status : ErrorStatuses, body : ErrorBodies]

\* An exception object: its class, its status_code attribute and its message
Exc(kind, status, message) ==
    [kind |-> kind, status_code |-> status, message |-> message]

\* No exception
NotRaised == Exc("None", NoneNum, <<>>)

\* http_adapter.py 66-75: _handle_httpx_error
HandleHttpxError(e) ==
    CASE e = "TimeoutException" ->
            Exc("TimeoutError", NoneNum, <<"Request timeout", e>>)
      [] e = "ConnectError" ->
            Exc("ConnectionError", NoneNum, <<"Connection failed", e>>)
      [] OTHER -> Exc("NetworkError", NoneNum, <<"Network error", e>>)

\* exceptions/api.py 263-275: STATUS_CODE_EXCEPTIONS
StatusCodeExceptions ==
    (400 :> "BadRequestError") @@ (401 :> "UnauthorizedError")
    @@ (403 :> "ForbiddenError") @@ (404 :> "NotFoundError")
    @@ (409 :> "ConflictError") @@ (422 :> "UnprocessableEntityError")
    @@ (429 :> "TooManyRequestsError") @@ (500 :> "InternalServerError")
    @@ (502 :> "BadGatewayError") @@ (503 :> "ServiceUnavailableError")
    @@ (504 :> "GatewayTimeoutError")

\* exceptions/api.py 284: the class create_http_exception picks
ExceptionClass(status) ==
    IF status \in DOMAIN StatusCodeExceptions THEN StatusCodeExceptions[status]
    ELSE "HTTPError"

\* exceptions/api.py 11-21, 40-112: cls(message=..., status_code=status, ...).
\* HTTPError takes the keywords as APIError.__init__ declares them.  Each
\* class of a particular status declares __init__(self, message, **kwargs) and
\* calls super().__init__(message, status_code=<its own>, **kwargs): with
\* status_code among kwargs that call has the keyword twice and raises
\* TypeError
NewHttpException(cls, message, status) ==
    IF cls = "HTTPError" THEN Exc(cls, status, message)
    ELSE Exc("TypeError", NoneNum,
             <<"got multiple values for keyword argument 'status_code'">>)

\* exceptions/api.py 278-292: create_http_exception
CreateHttpException(status, message) ==
    NewHttpException(ExceptionClass(status), message, status)

\* http_adapter.py 80-87: the message taken from the response's body
ErrorMessage(out) ==
    CASE out.body = "json_message" -> <<"message of the upstream">>
      [] out.body = "text" -> <<"text of the response">>
      [] OTHER -> <<"HTTP", ToString(out.status), "error">>

\* http_adapter.py 77-90: what _check_response_status raises for a response
\* that is not a success; a JSON body that is not an object has no get()
CheckResponseStatus(out) ==
    IF out.body = "json_list"
    THEN Exc("AttributeError", NoneNum, <<"'list' object has no attribute 'get'">>)
    ELSE CreateHttpException(out.status, ErrorMessage(out))

\* Mutant of AfterHTTPError: a 401 sends the call back to get_auth_headers,
\* every time
AfterHTTPErrorReauth(status) ==
    IF status = 401 THEN "auth" ELSE "raised"

\* http_adapter.py 131-133 / 175-177 and base.py 119-126 / 147-154: what
\* _check_response_status raised for a response of this status propagates out
\* of the adapter and out of _request; the call's next position
AfterHTTPError(status) == "raised"

\* base_client.py 18-44, http_adapter.py 20-33: a client as constructed
ReqInit ==
    /\ initialized = FALSE
    /\ max_retries \in 0..MaxRetries
    /\ reqPc = "idle"
    /\ reqSurface = "async"
    /\ reqAttempt = 0
    /\ reqCalls = 0
    /\ reqLog = <<>>
    /\ reqSleeps = <<>>
    /\ reqRaised = NotRaised

\* The client of a scenario that is about another component: never used
ReqOff ==
    /\ ReqInit
    /\ max_retries = 0

\* token_provider.py 41-48 / 50-64 with the guard free: get_token() run from
\* call to return, the token-issuance call answering r
SoleGetToken(r) ==
    IF BodyPc("get") = "post"
    THEN /\ authCalls' = authCalls + 1
         /\ IF RefreshFails(r)
            THEN UNCHANGED <<token, token_expires_at, issued>>
            ELSE /\ token' = ExtractToken(r)
                 /\ token_expires_at' = clock + token_ttl
                 /\ issued' = Append(issued, <<ExtractToken(r), clock + token_ttl>>)
    ELSE UNCHANGED <<token, token_expires_at, authCalls, issued>>

\* Whether that get_token() raises (AuthenticationError)
SoleGetTokenRaises(r) ==
    \/ BodyPc("get") = "failed"
    \/ BodyPc("get") = "post" /\ RefreshFails(r)

\* What that get_token() adds to the call's history
SoleGetTokenLog == IF BodyPc("get") = "post" THEN <<"get_token", "refresh">>
                   ELSE <<"get_token">>

\* base.py 100-113 / 128-141: an endpoint method calls _request (s = "async")
\* or _request_sync (s = "sync"); the first thing it does is get_auth_headers
Request(s) ==
    /\ reqPc \in {"idle", "returned", "raised"}
    /\ reqCalls < MaxRequests
    /\ reqCalls' = reqCalls + 1
    /\ reqSurface' = s
    /\ reqPc' = "auth"
    /\ reqAttempt' = 0
    /\ reqLog' = <<>>
    /\ reqSleeps' = <<>>
    /\ reqRaised' = NotRaised
    /\ UNCHANGED <<initialized, max_retries>>
    /\ UNCHANGED <<tokVars, rlVars, rtVars, observed, twinVars, settings>>

\* base_client.py 58-59 / 73-74 and client.py 146-175: a client that is not
\* initialized runs initialize(), which calls get_token() and turns any
\* failure into AuthenticationError
Initialize(r) ==
    /\ reqPc = "auth" /\ ~initialized
    /\ SoleGetToken(r)
    /\ reqLog' = reqLog \o SoleGetTokenLog
    /\ IF SoleGetTokenRaises(r)
       THEN /\ reqPc' = "raised"
            /\ reqRaised' = Exc("AuthenticationError", NoneNum,
                                <<"client not initialized",
                                  "AuthenticationError">>)
            /\ UNCHANGED initialized
       ELSE /\ initialized' = TRUE
            /\ UNCHANGED <<reqPc, reqRaised>>
    /\ UNCHANGED <<max_retries, reqSurface, reqAttempt, reqCalls, reqSleeps>>
    /\ UNCHANGED <<token_lock, sync_token_lock, cfgVars, clock, pc, op, result,
                   serial, arrivedBusy>>
    /\ UNCHANGED <<rlVars, rtVars, observed, twinVars, settings>>

\* base_client.py 61-69 / 76-84 and base.py 113-119 / 141-147: the token for
\* the Authorization header; then the adapter's attempt loop is entered
GetAuthHeaders(r) ==
    /\ reqPc = "auth" /\ initialized
    /\ SoleGetToken(r)
    /\ IF SoleGetTokenRaises(r)
       THEN /\ reqPc' = "raised"
            /\ reqRaised' = Exc("AuthenticationError", NoneNum,
                                <<"Failed to obtain access token">>)
            /\ reqLog' = reqLog \o SoleGetTokenLog
       ELSE /\ reqPc' = "send"
            /\ reqLog' = reqLog \o SoleGetTokenLog \o <<"loop">>
            /\ UNCHANGED reqRaised
    /\ reqAttempt' = 0
    /\ UNCHANGED <<initialized, max_retries, reqSurface, reqCalls, reqSleeps>>
    /\ UNCHANGED <<token_lock, sync_token_lock, cfgVars, clock, pc, op, result,
                   serial, arrivedBusy>>
    /\ UNCHANGED <<rlVars, rtVars, observed, twinVars, settings>>

\* http_adapter.py 115-133 / 158-177: one pass of the attempt loop; the
\* transport call is issued and answers, or raises, `out`
AdapterRequest(out) ==
    /\ reqPc = "send"
    /\ IF out.kind = "ok"
       THEN /\ reqPc' = "returned"
            /\ reqLog' = reqLog \o <<"transport">>
            /\ UNCHANGED <<reqSleeps, reqRaised>>
       ELSE IF out.kind = "status"
       THEN /\ reqPc' = AfterHTTPError(out.status)
            /\ reqLog' = reqLog \o <<"transport", ToString(out.status)>>
            /\ reqRaised' = IF AfterHTTPError(out.status) = "raised"
                            THEN CheckResponseStatus(out) ELSE reqRaised
            /\ UNCHANGED reqSleeps
       ELSE IF reqAttempt = max_retries
       THEN /\ reqPc' = "raised"
            /\ reqLog' = reqLog \o <<"transport">>
            /\ reqRaised' = HandleHttpxError(out.kind)
            /\ UNCHANGED reqSleeps
       ELSE /\ reqPc' = "sleep"
            /\ reqLog' = reqLog \o <<"transport", "sleep">>
            /\ reqSleeps' = Append(reqSleeps, Pow(2, reqAttempt))
            /\ UNCHANGED reqRaised
    /\ UNCHANGED <<initialized, max_retries, reqSurface, reqAttempt, reqCalls>>
    /\ UNCHANGED <<tokVars, rlVars, rtVars, observed, twinVars, settings>>

\* http_adapter.py 115, 130 / 158, 174: the sleep is over, the next pass begins
AdapterNextAttempt ==
    /\ reqPc = "sleep"
    /\ reqAttempt' = reqAttempt + 1
    /\ reqPc' = "send"
    /\ UNCHANGED <<initialized, max_retries, reqSurface, reqCalls, reqLog,
                   reqSleeps, reqRaised>>
    /\ UNCHANGED <<tokVars, rlVars, rtVars, observed, twinVars, settings>>

EndpointNext ==
    \/ \E s \in {"async", "sync"} : Request(s)
    \/ \E r \in Responses(authCalls + 1) : Initialize(r)
    \/ \E r \in Responses(authCalls + 1) : GetAuthHeaders(r)
    \/ \E out \in TransportOutcomes : AdapterRequest(out)
    \/ AdapterNextAttempt
    \/ Tick


(* ---- a token issuance: TokenProvider's call of HttpAdapter.post ---- *)

\* token_provider.py 86-89 / 122-125: _refresh_token calls
\* http_adapter.post / post_sync, which enters the attempt loop
\* (http_adapter.py 115 / 158); reqCalls counts these calls
PostRequest(c) ==
    /\ pc[c] = "post" /\ reqCalls < authCalls
    /\ reqCalls' = reqCalls + 1
    /\ reqSurface' = IF c[1] = "task" THEN "async" ELSE "sync"
    /\ reqPc' = "send"
    /\ reqAttempt' = 0
    /\ reqLog' = <<"loop">>
    /\ reqSleeps' = <<>>
    /\ reqRaised' = NotRaised
    /\ UNCHANGED <<initialized, max_retries>>
    /\ UNCHANGED <<tokVars, rlVars, rtVars, observed, twinVars, settings>>

\* Mutant of RefreshRaises: the failure is reported without its cause
RefreshRaisesBare(r, cause) ==
    IF RefreshFails(r)
    THEN Exc("AuthenticationError", NoneNum, <<"Failed to obtain access token">>)
    ELSE NotRaised

\* exceptions/base.py 14-17, exceptions/api.py 23-37: str(e), the message
\* and for an API error the status it carries
Str(e) ==
    IF e.status_code = NoneNum THEN e.message
    ELSE e.message \o <<"Status", ToString(e.status_code)>>

\* token_provider.py 99-108 / 135-144: what _refresh_token raises when the
\* post raised `cause` (r.kind = "raise") or answered r
RefreshRaises(r, cause) ==
    IF r.kind = "raise"
    THEN IF cause.kind = "AuthenticationError" THEN cause
         ELSE Exc("AuthenticationError", NoneNum,
                  <<"Failed to obtain access token">> \o Str(cause))
    ELSE IF ~TruthyStr(ExtractToken(r))
    THEN Exc("AuthenticationError", NoneNum,
             <<"Empty token received from Magento API">>)
    ELSE NotRaised

\* History: what the post gave _refresh_token
PostAnswer(r) ==
    IF r.kind = "raise" THEN "exception"
    ELSE IF Strip(r.text) = <<>> THEN "empty string"
    ELSE "token"

\* token_provider.py 86-108 / 122-144: the post has returned the response r
\* or has raised; reqRaised becomes what get_token raises
IssueReply(c, r) ==
    /\ pc[c] = "post" /\ reqCalls = authCalls
    /\ reqPc \in {"returned", "raised"}
    /\ (r.kind = "raise") <=> (reqPc = "raised")
    /\ IF c[1] = "task" THEN AsyncRefreshEnds(c, r) ELSE SyncRefreshEnds(c, r)
    /\ reqRaised' = RefreshRaises(r, reqRaised)
    /\ reqPc' = "idle"
    /\ reqLog' = reqLog \o <<PostAnswer(r)>>
    /\ UNCHANGED <<initialized, max_retries, reqSurface, reqAttempt, reqCalls,
                   reqSleeps>>
    /\ UNCHANGED <<rlVars, rtVars, observed, twinVars, settings>>

-----------------------------------------------------------------------------
(* Readers of the cache: get_token_info and is_authenticated,
   token_provider.py 164-178 *)

NotObserved == [via |-> "none", has_token |-> FALSE, is_valid |-> FALSE,
                expires_at |-> NoneNum]

\* get_token_info() called from a task (k = "task": it runs when no other
\* task is in the middle of a slice) or from a thread (at any time)
GetTokenInfo(k) ==
    /\ observed.via = "none"
    /\ k = "task" => ~LoopBusy
    /\ observed' = [via |-> "get_token_info",
                    has_token |-> token # NoneStr,
                    is_valid |-> is_token_valid,
                    expires_at |-> token_expires_at]
    /\ UNCHANGED <<tokVars, rlVars, rtVars, reqVars, twinVars, settings>>

\* Mutant of IsAuthenticatedValue: any cached credential counts, whatever its
\* expiry
IsAuthenticatedAnyAge == TruthyStr(token)

\* token_provider.py 164-166: what is_authenticated() returns
IsAuthenticatedValue == is_token_valid

\* is_authenticated() called from a task or from a thread; it returns one
\* boolean
IsAuthenticated(k) ==
    /\ observed.via = "none"
    /\ k = "task" => ~LoopBusy
    /\ observed' = [via |-> "is_authenticated",
                    has_token |-> FALSE,
                    is_valid |-> IsAuthenticatedValue,
                    expires_at |-> NoneNum]
    /\ UNCHANGED <<tokVars, rlVars, rtVars, reqVars, twinVars, settings>>

\* The reader has used what it was given
ReadUsed ==
    /\ observed.via # "none"
    /\ observed' = NotObserved
    /\ UNCHANGED <<tokVars, rlVars, rtVars, reqVars, twinVars, settings>>

-----------------------------------------------------------------------------
(* The scenarios *)

TaskStep(S) ==
    \E t \in S :
        \/ \E o \in Ops : AsyncCall(t, o)
        \/ AsyncWake(t)
        \/ \E r \in Responses(serial[t]) : AsyncReply(t, r)
        \/ AsyncSetExpiry(t)
        \/ AsyncReturn(t)
        \/ AsyncClearExpiry(t)

ThreadStep(S) ==
    \E h \in S :
        \/ \E o \in Ops : SyncCall(h, o)
        \/ SyncSpin(h)
        \/ SyncTake(h)
        \/ \E r \in Responses(serial[h]) : SyncReply(h, r)
        \/ SyncSetExpiry(h)
        \/ SyncReturn(h)
        \/ SyncClearExpiry(h)

\* The callers of each scenario: tasks alone, threads alone, and both surfaces
\* of one provider used at once
MixedTasks == {<<"task", i>> : i \in 1..NumMixedTasks}
MixedThreads == {<<"thread", i>> : i \in 1..NumMixedThreads}

CoopNext == TaskStep(Tasks) \/ Tick
ThreadNext == ThreadStep(Threads) \/ Tick
MixedNext == TaskStep(MixedTasks) \/ ThreadStep(MixedThreads) \/ Tick

\* What a task, or a thread, that has called does next.  The event loop runs
\* every task that is ready and the operating system every thread, and a
\* transport call ends, with a response or an exception (its timeout)
TaskRun(t) ==
    \/ AsyncWake(t)
    \/ \E r \in Responses(serial[t]) : AsyncReply(t, r)
    \/ AsyncSetExpiry(t)
    \/ AsyncReturn(t)
    \/ AsyncClearExpiry(t)

ThreadRun(h) ==
    \/ SyncSpin(h)
    \/ SyncTake(h)
    \/ \E r \in Responses(serial[h]) : SyncReply(h, r)
    \/ SyncSetExpiry(h)
    \/ SyncReturn(h)
    \/ SyncClearExpiry(h)

MixedFairness ==
    /\ \A t \in MixedTasks : WF_vars(TaskRun(t))
    /\ \A h \in MixedThreads : WF_vars(ThreadRun(h))

\* Mutant of CancelGetToken: the cancelled refresher keeps the lock
CancelGetTokenKeepsLock(t) ==
    /\ pc[t] \in {"wait", "post"} /\ ~LoopBusy
    /\ pc' = [pc EXCEPT ![t] = "cancelled"]
    /\ UNCHANGED <<token, token_expires_at, token_lock, sync_token_lock, cfgVars,
                   clock, op, result, serial, authCalls, issued, arrivedBusy>>
    /\ UNCHANGED otherVars

\* token_provider.py 43, 86: the task is cancelled while it waits for the
\* lock or for the post; CancelledError is raised at the await, is not an
\* Exception (so line 105 does not catch it) and leaves get_token, and
\* leaving the `async with` block releases the lock the refresher holds
CancelGetToken(t) ==
    /\ pc[t] \in {"wait", "post"} /\ ~LoopBusy
    /\ pc' = [pc EXCEPT ![t] = "cancelled"]
    /\ token_lock' = IF pc[t] = "post" THEN LockAfterWith(t) ELSE token_lock
    /\ UNCHANGED <<token, token_expires_at, sync_token_lock, cfgVars, clock, op,
                   result, serial, authCalls, issued, arrivedBusy>>
    /\ UNCHANGED otherVars

\* Tasks of one event loop that use a provider, or a limiter, and may be
\* cancelled while they wait.  The two objects share no state; a behaviour
\* uses one of them
CancelNext ==
    \/ /\ \A c \in RlCallers : rpc[c] = "idle"
       /\ \/ TaskStep(MixedTasks)
          \/ \E t \in MixedTasks : CancelGetToken(t)
          \/ (\E t \in MixedTasks : pc[t] # "idle") /\ Tick
    \/ /\ \A c \in Callers : pc[c] = "idle"
       /\ \/ \E t \in RlTasks, n \in 1..MaxWant : Acquire(t, n)
          \/ \E t \in RlTasks : AcquireWake(t) \/ BucketStep(t) \/ SleepOver(t)
          \/ \E t \in RlTasks : CancelAcquire(t)
          \/ (\E t \in RlTasks : rpc[t] # "idle") /\ RlTick

\* The two surfaces used in turn: tasks call while no thread's call is under
\* way, also while another task's call is; a thread calls while no call at
\* all is under way.  A task on the event loop calls is_authenticated() at
\* any point at which no thread is inside the provider
SeqCallers == MixedTasks \cup MixedThreads
NoCallUnderWay(S) == \A c \in S : pc[c] \in {"idle", "done", "failed"}

SeqNext ==
    \/ \E t \in MixedTasks :
          \/ \E o \in Ops : NoCallUnderWay(MixedThreads) /\ AsyncCall(t, o)
          \/ AsyncWake(t)
          \/ \E r \in Responses(serial[t]) : AsyncReply(t, r)
          \/ AsyncSetExpiry(t)
          \/ AsyncReturn(t)
          \/ AsyncClearExpiry(t)
    \/ \E h \in MixedThreads :
          \/ \E o \in Ops : NoCallUnderWay(SeqCallers) /\ SyncCall(h, o)
          \/ SyncSpin(h)
          \/ SyncTake(h)
          \/ \E r \in Responses(serial[h]) : SyncReply(h, r)
          \/ SyncSetExpiry(h)
          \/ SyncReturn(h)
          \/ SyncClearExpiry(h)
    \/ NoCallUnderWay(MixedThreads) /\ IsAuthenticated("task")
    \/ ReadUsed
    \/ Tick

\* Token issuances seen with the adapter's attempt loop: calls made one
\* after another, on either surface
IssuanceNext ==
    \/ \E t \in MixedTasks \cap {<<"task", i>> : i \in 1..NumMixedThreads} :
          \/ \E o \in Ops : NoCallUnderWay(SeqCallers) /\ AsyncCall(t, o)
          \/ AsyncSetExpiry(t)
          \/ AsyncReturn(t)
          \/ AsyncClearExpiry(t)
    \/ \E h \in MixedThreads :
          \/ \E o \in Ops : NoCallUnderWay(SeqCallers) /\ SyncCall(h, o)
          \/ SyncSpin(h)
          \/ SyncTake(h)
          \/ SyncSetExpiry(h)
          \/ SyncReturn(h)
          \/ SyncClearExpiry(h)
    \/ \E c \in SeqCallers :
          \/ PostRequest(c)
          \/ \E r \in Responses(serial[c]) : IssueReply(c, r)
    \/ \E out \in TransportOutcomes : AdapterRequest(out)
    \/ AdapterNextAttempt
    \/ Tick

(* ---- one sequence of operations, run through the cooperative surface and
   then, on a provider constructed anew, through the blocking surface ---- *)

\* No sequence is being run
NoOutcome ==
    [cache |-> <<NoneStr, NoneNum>>, calls |-> NoneNum,
     ends |-> [i \in 1..NumThreads |-> <<"idle", NoneStr>>]]

TwinOff == script = <<>> /\ first = NoOutcome

\* What a run on surface k ("task", "thread") has given: how each call ended
\* and what it returned, the token-issuance calls made, the cache left
Outcome(k) ==
    [cache |-> <<token, token_expires_at>>, calls |-> authCalls,
     ends |-> [i \in 1..NumThreads |-> <<pc[<<k, i>>], result[<<k, i>>]>>]]

RECURSIVE TicksBefore(_)
\* The clock ticks of the script up to its i-th operation
TicksBefore(i) == IF i = 0 THEN 0 ELSE TicksBefore(i - 1) + script[i].ticks

\* The sequences tried: get, forced get or invalidation, each answered by one
\* of the upstream's answers should it reach the upstream, with clock ticks
\* in between
Scripts ==
    {sq \in [1..NumThreads ->
                [op : Ops, answer : Answers, ticks : 0..MaxTicks]] :
        \A i \in 1..NumThreads : \A j \in 1..NumThreads :
            i < j => sq[i].ticks + sq[j].ticks <= MaxTicks}

\* The same sequences answered by token strings under no, one or two layers
\* of quotes, bare or in a content field
LayeredAnswers ==
    {"bare", "quoted", "doubled", "content", "content_quoted", "content_doubled"}

LayeredScripts ==
    {sq \in [1..NumThreads ->
                [op : Ops, answer : LayeredAnswers, ticks : 0..MaxTicks]] :
        \A i \in 1..NumThreads : \A j \in 1..NumThreads :
            i < j => sq[i].ticks + sq[j].ticks <= MaxTicks}

\* Surface k is the one the sequence is running on
Running(k) == (k = "task") <=> (first = NoOutcome)

\* The i-th operation is the next one on surface k, the one before it has
\* ended
TwinNextOp(k, i) ==
    /\ Running(k) /\ pc[<<k, i>>] = "idle" /\ CallsNext(<<k, i>>)
    /\ \A c \in Callers : pc[c] \in {"idle", "done", "failed"}

\* The cooperative run is over: its outcome is kept and the blocking run
\* starts on a provider constructed as the first one was (token_provider.py
\* 17-39), at the same time of day
TwinSwitch ==
    /\ first = NoOutcome
    /\ \A i \in 1..NumThreads : pc[<<"task", i>>] \in {"done", "failed"}
    /\ first' = Outcome("task")
    /\ token' = NoneStr
    /\ token_expires_at' = NoneNum
    /\ authCalls' = 0
    /\ issued' = <<>>
    /\ clock' = StartTime
    /\ UNCHANGED <<token_lock, sync_token_lock, cfgVars, pc, op, result, serial,
                   arrivedBusy, script>>
    /\ UNCHANGED <<rlVars, rtVars, reqVars, observed, settings>>

TwinNext ==
    \/ \E i \in 1..NumThreads :
          /\ TwinNextOp("task", i)
          /\ clock = StartTime + TickStep * TicksBefore(i)
          /\ AsyncCall(<<"task", i>>, script[i].op)
    \/ \E i \in 1..NumThreads :
          AsyncReply(<<"task", i>>,
                     ResponseAs(serial[<<"task", i>>], script[i].answer))
    \/ \E i \in 1..NumThreads :
          \/ AsyncSetExpiry(<<"task", i>>)
          \/ AsyncReturn(<<"task", i>>)
          \/ AsyncClearExpiry(<<"task", i>>)
    \/ TwinSwitch
    \/ \E i \in 1..NumThreads :
          /\ TwinNextOp("thread", i)
          /\ clock = StartTime + TickStep * TicksBefore(i)
          /\ SyncCall(<<"thread", i>>, script[i].op)
    \/ \E i \in 1..NumThreads :
          SyncReply(<<"thread", i>>,
                    ResponseAs(serial[<<"thread", i>>], script[i].answer))
    \/ \E h \in Threads :
          \/ SyncSpin(h)
          \/ SyncTake(h)
          \/ SyncSetExpiry(h)
          \/ SyncReturn(h)
          \/ SyncClearExpiry(h)
    \/ \E k \in {"task", "thread"}, i \in 1..NumThreads :
          /\ TwinNextOp(k, i)
          /\ clock < StartTime + TickStep * TicksBefore(i)
          /\ Tick

(* ---- an invalidation requested while a refresh is in flight ---- *)

\* The callers that have called
Called == {c \in Callers : pc[c] # "idle"}

\* The first caller calls get_token on the empty cache; the second requests
\* an invalidation while the first one's refresh is in flight; the third
\* calls get_token after the invalidation has returned
InFlightOp == IF Cardinality(Called) = 1 THEN "inval" ELSE "get"

InFlightMayCall ==
    \/ Called = {}
    \/ Cardinality(Called) = 1 /\ \E c \in Called : Refreshing(c)
    \/ /\ Cardinality(Called) = 2
       /\ \E c \in Called : op[c] = "inval" /\ pc[c] = "done"

\* Each of the three is a task or a thread
InFlightNext ==
    \/ \E t \in Tasks : InFlightMayCall /\ AsyncCall(t, InFlightOp)
    \/ \E h \in Threads : InFlightMayCall /\ SyncCall(h, InFlightOp)
    \/ \E t \in Tasks : TaskRun(t)
    \/ \E h \in Threads : ThreadRun(h)
    \/ Tick

(* ---- Settings (settings.py): one construction.  A string is kept as its
   length, which is all the validator looks at; None is NoneNum. ---- *)

\* No Settings object is being constructed
NoSettings ==
    [enable_encryption |-> FALSE, given |-> FALSE, encryption_key |-> NoneNum,
     built |-> "none"]

SettingsOff == settings = NoSettings

\* The calls tried: enable_encryption false or true, encryption_key left out,
\* or passed as None or as a string of 0..MaxKeyLen characters
SettingsCalls ==
    {c \in [enable_encryption : BOOLEAN, given : BOOLEAN,
            encryption_key : {NoneNum} \cup 0..MaxKeyLen, built : {"pending"}] :
        ~c.given => c.encryption_key = NoneNum}

\* settings.py 90-100: validate_encryption_key; `not v` holds for None and
\* for the empty string
ValidateEncryptionKey(v, enable_encryption) ==
    IF enable_encryption /\ ~TruthyNum(v) THEN "ValidationError"
    ELSE IF TruthyNum(v) /\ v # KeyLength THEN "ValidationError"
    ELSE "ok"

\* settings.py 36, 90: Settings(...).  enable_encryption is declared before
\* encryption_key, so the validator sees it; a field validator runs on a
\* value that was passed, and a field left out takes its default (None)
\* without validation
Construct ==
    /\ settings.built = "pending"
    /\ settings' =
          [settings EXCEPT !.built =
              IF settings.given
              THEN ValidateEncryptionKey(settings.encryption_key,
                                         settings.enable_encryption)
              ELSE "ok"]
    /\ UNCHANGED <<tokVars, rlVars, rtVars, reqVars, observed, twinVars>>

SettingsInit ==
    /\ TokOff /\ RlOff /\ RtOff /\ ReqOff /\ observed = NotObserved /\ TwinOff
    /\ settings \in SettingsCalls

SettingsNext == Construct

\* Threads using the blocking surface while get_token_info is called from a
\* task and from another thread
ReaderNext ==
    \/ ThreadStep(Threads)
    \/ \E k \in {"task", "thread"} : GetTokenInfo(k)
    \/ \E k \in {"task", "thread"} : IsAuthenticated(k)
    \/ ReadUsed
    \/ Tick

\* A provider under test beside an idle limiter, and the other way round
ProviderInit == TokInit /\ RlOff /\ RtOff /\ ReqOff /\ observed = NotObserved /\ TwinOff /\ SettingsOff
LimiterInit == TokOff /\ RlInit /\ RtOff /\ ReqOff /\ observed = NotObserved /\ TwinOff /\ SettingsOff
RetryInit == TokOff /\ RlOff /\ RtInit /\ ReqOff /\ observed = NotObserved /\ TwinOff /\ SettingsOff
TwinInit ==
    /\ TokInit /\ RlOff /\ RtOff /\ ReqOff /\ observed = NotObserved
    /\ script \in Scripts /\ first = NoOutcome /\ SettingsOff
LayeredInit ==
    /\ TokInit /\ RlOff /\ RtOff /\ ReqOff /\ observed = NotObserved
    /\ script \in LayeredScripts /\ first = NoOutcome /\ SettingsOff
CancelInit == TokInit /\ RlInit /\ RtOff /\ ReqOff /\ observed = NotObserved /\ TwinOff /\ SettingsOff
EndpointInit ==
    /\ TokInit /\ http_adapter
    /\ RlOff /\ RtOff /\ ReqInit /\ observed = NotObserved /\ TwinOff /\ SettingsOff

SpecCoop == ProviderInit /\ [][CoopNext]_vars
SpecThreads == ProviderInit /\ [][ThreadNext]_vars
SpecMixed == ProviderInit /\ [][MixedNext]_vars
SpecBucket == LimiterInit /\ [][BucketNext]_vars
SpecAnyAmount == LimiterInit /\ [][AnyAmountNext]_vars
SpecLimiter == LimiterInit /\ [][LimiterNext]_vars
SpecConsecutive == LimiterInit /\ [][ConsecutiveNext]_vars
SpecRetry == RetryInit /\ [][RetryNext]_vars
SpecEndpoint == EndpointInit /\ [][EndpointNext]_vars
SpecReaders == ProviderInit /\ [][ReaderNext]_vars
SpecSeq == ProviderInit /\ [][SeqNext]_vars
SpecCancel ==
    /\ CancelInit /\ [][CancelNext]_vars
    /\ \A t \in MixedTasks : WF_vars(TaskRun(t))
SpecTwin == TwinInit /\ [][TwinNext]_vars
SpecLayered == LayeredInit /\ [][TwinNext]_vars
SpecSettings == SettingsInit /\ [][SettingsNext]_vars
SpecInFlight == ProviderInit /\ [][InFlightNext]_vars
SpecIssuance == EndpointInit /\ [][IssuanceNext]_vars
SpecMixedFair == ProviderInit /\ [][MixedNext]_vars /\ MixedFairness
Spec == SpecMixed

-----------------------------------------------------------------------------
(* Single-flight refresh *)

\* Every caller in S made a plain get_token call and has returned
AllGot(S) == \A c \in S : op[c] = "get" /\ pc[c] = "done"

\* The callers in S that called while another caller was in the guarded body
Overlapped(S) == {c \in S : arrivedBusy[c]}

\* The first token stored is still fresh now, so it was at every earlier read
FirstStillFresh == issued # <<>> /\ clock < issued[1][2] - SafetyMargin

C2_SyncSingleFlight ==
    /\ Cardinality({h \in Threads : Refreshing(h)}) <= 1
    /\ (AllGot(Threads) /\ FirstStillFresh)
          => /\ authCalls = 1
             /\ \A h, k \in Threads : result[h] = result[k]

\* C3: a refresh of the cooperative surface and a refresh of the blocking
\* surface of one provider are never in flight at the same time.
C3_SurfacesExclusive ==
    ~ \E t \in MixedTasks, h \in MixedThreads : Refreshing(t) /\ Refreshing(h)

\* C4: the step in which a refresh fails leaves the cache Empty: credential
\* and expiry both absent.
C4_FailedRefreshEmpties ==
    [][ (\E c \in Callers : pc[c] = "post" /\ pc'[c] = "failed")
          => (token' = NoneStr /\ token_expires_at' = NoneNum) ]_vars

\* C5: N tasks call get_token() together on an empty cache and the issuance
\* fails; then all N fail and one token-issuance call was made in all.
C5_FailureSharedByWaiters ==
    ( /\ http_adapter
      /\ \A t \in Tasks : op[t] = "get" /\ pc[t] = "failed"
      /\ Cardinality(Overlapped(Tasks)) >= NumTasks - 1 )
        => authCalls = 1

-----------------------------------------------------------------------------
(* Token bucket and limiter *)

\* C6: whatever sequence of consume(n), n >= 1, and wait_time calls and clock
\* advances a TokenBucket sees, 0 <= tokens <= capacity.
C6_TokensWithinBounds ==
    0 <= tokens60 /\ tokens60 <= capacity * PerMinute

\* C6 witness: time has passed, the bucket was refilled at the present time
\* and a consume then took the last token
C6_Witness ==
    /\ rpc[BucketUser] = "idle" /\ ret[BucketUser] = "True"
    /\ clock > StartTime /\ last_refill = clock
    /\ tokens60 = 0

\* A caller inside the consume-or-wait loop of acquire / acquire_sync
InLoop(c) == Acquiring(c) /\ rpc[c] \notin {"idle", "lockwait", "done"}

\* The most a limiter can have admitted by now: what it held when constructed
\* and what has been refilled since
Admissible == capacity * PerMinute + (clock - StartTime) * requests_per_minute

\* C7: callers of acquire() and acquire_sync() on one limiter are serialized:
\* no two are in the consume-or-wait loop together, the units admitted never
\* exceed the tokens initially present plus the tokens refilled, and tokens is
\* never negative.
C7_AcquireSerialized ==
    /\ Cardinality({c \in RlCallers : InLoop(c)}) <= 1
    /\ admitted60 <= Admissible
    /\ tokens60 >= 0

-----------------------------------------------------------------------------
(* Retry loop *)

\* A failure the strategy counts as retryable: caught by the loop and of a
\* class listed in retryable_exceptions
Retryable(e) ==
    /\ Caught(e.kind)
    /\ \E cls \in strategy.retryable_exceptions : IsInstance(e.kind, cls)

AllRetryable == \A i \in 1..Len(failures) : Retryable(failures[i])

\* ExponentialBackoff(max_attempts=3, base_delay=1, multiplier=2, jitter=False)
IsSpecExample ==
    /\ strategy.kind = "exponential" /\ strategy.max_attempts = 3
    /\ strategy.base_delay = 1 /\ strategy.multiplier = 2
    /\ strategy.max_delay >= 2 /\ ~strategy.jitter

\* C8: when every attempt fails with a retryable failure, func is invoked
\* exactly max_attempts times, the k-th delay slept is a value of get_delay(k)
\* for k = 1..max_attempts-1 (1s then 2s for the exponential example), and no
\* delay follows the last attempt.
C8_ExhaustedAfterMaxAttempts ==
    (rtPc = "raised" /\ AllRetryable)
        => /\ invocations = strategy.max_attempts
           /\ Len(sleeps) = strategy.max_attempts - 1
           /\ \A k \in 1..Len(sleeps) : sleeps[k] \in GetDelay(strategy, k)
           /\ IsSpecExample => sleeps = <<Seconds(1), Seconds(2)>>

\* C8 witness: the exponential example has given up after three failures
C8_Witness ==
    /\ rtPc = "raised" /\ AllRetryable /\ IsSpecExample
    /\ invocations = 3
    /\ sleeps = <<Seconds(1), Seconds(2)>>

\* C9: a failure that is not retryable is the last thing the loop sees: func
\* is not invoked again, no delay is slept after it, and execute raises.
C9_NonRetryableStops ==
    \A i \in 1..Len(failures) :
        ~Retryable(failures[i])
            => /\ i = Len(failures)
               /\ invocations = failures[i].attempt
               /\ Len(sleeps) = failures[i].attempt - 1
               /\ rtPc = "raised"

\* C9 witness: with max_attempts > 1, a non-retryable failure on attempt 1
\* ended the call after one invocation
C9_Witness ==
    /\ strategy.max_attempts > 1
    /\ rtPc = "raised" /\ invocations = 1 /\ sleeps = <<>>
    /\ Len(failures) = 1 /\ Caught(failures[1].kind) /\ ~Retryable(failures[1])

\* C10: what execute raises when it gives up is the failure of the last
\* attempt made, of the same kind; an earlier attempt's failure is not raised
\* and a failed last attempt is never turned into a return.
C10_LastFailureSurfaces ==
    /\ rtPc = "raised" =>
          /\ failures # <<>>
          /\ raised = failures[Len(failures)]
          /\ raised.attempt = invocations
    /\ rtPc = "returned" => Len(failures) = invocations - 1

\* C10 witness: execute gave up on attempts exhausted, after failures of
\* different kinds, raising the last one
C10_Witness ==
    /\ rtPc = "raised" /\ invocations = strategy.max_attempts
    /\ Len(failures) >= 2
    /\ failures[1].kind # failures[Len(failures)].kind
    /\ raised = failures[Len(failures)]

\* C11: when every attempt has failed with a retryable failure and the
\* attempts are used up, what execute raises is a retry-exhausted failure
\* carrying the attempt count (and wrapping the last underlying failure).
C11_ExhaustedIsWrapped ==
    (rtPc = "raised" /\ AllRetryable /\ invocations = strategy.max_attempts)
        => /\ raised.kind = "RetryExhaustedError"
           /\ raised.attempt = strategy.max_attempts

-----------------------------------------------------------------------------
(* Logical API calls *)

\* The positions in the call's history at which event ev happened
Positions(ev) == {i \in 1..Len(reqLog) : reqLog[i] = ev}

\* The logical call has ended: _request returned or raised
CallEnded == reqPc \in {"returned", "raised"}

\* C12: no transport call of an API operation is issued unless the rate
\* limiter has admitted the call before: once a transport call is in the
\* call's history, the limiter has admitted at least one unit.
C12_AdmittedBeforeTransport ==
    Positions("transport") # {} => admitted60 >= PerMinute

\* C13: a logical call that was answered 401 has, by the time it ends, been
\* followed up: after the 401 a token was issued anew and the transport call
\* was issued again.
C13_ReauthOn401 ==
    (CallEnded /\ Positions("401") # {})
        => \E i \in Positions("401"), j \in Positions("refresh"),
              k \in Positions("transport") : i < j /\ j < k

\* The token-issuance calls a logical call made after it was answered 401
RefreshesAfter401 ==
    {j \in Positions("refresh") : \E i \in Positions("401") : i < j}

\* C14: within one logical call the adapter's attempt loop is entered at most
\* twice and at most one token refresh follows an authentication failure,
\* however many transport attempts the loop itself makes.
C14_OneReauthCycle ==
    /\ Cardinality(Positions("loop")) <= 2
    /\ Cardinality(RefreshesAfter401) <= 1

\* C14 witness: a call whose attempt loop used up its retries on transport
\* errors and was then answered 401 has ended, having entered the loop once
C14_Witness ==
    /\ reqPc = "raised" /\ reqLog[Len(reqLog)] = "401"
    /\ max_retries > 0 /\ reqAttempt = max_retries
    /\ Cardinality(Positions("transport")) = max_retries + 1
    /\ Cardinality(Positions("loop")) = 1
    /\ RefreshesAfter401 = {}

-----------------------------------------------------------------------------
(* Readers of the cache *)

\* C15: whatever get_token_info() returns, at any time, from a task or a
\* thread, shows credential and expiry both absent or both present.
C15_ReaderSeesPair ==
    observed.has_token <=> (observed.expires_at # NoneNum)

-----------------------------------------------------------------------------
(* Validity window and frame effects of the calls *)

\* The cache holds the pair stored by the latest refresh
HoldsLatest == issued # <<>> /\ <<token, token_expires_at>> = issued[Len(issued)]

\* C16: a get_token() that gets to look at a cache holding the token issued at
\* t0 with lifetime ttl returns it, with no token-issuance call, exactly when
\* now < t0 + ttl - 60, and otherwise refreshes; with ttl = 200 the window is
\* [t0, t0 + 140).
C16_ValidWindow ==
    [][ \A t \in Tasks :
          /\ ( /\ pc[t] \in {"idle", "wait"}
               /\ pc'[t] \in {"ret", "post", "failed"}
               /\ op'[t] = "get"
               /\ HoldsLatest )
             => LET t0 == token_expires_at - token_ttl
                IN /\ (pc'[t] = "ret") <=> (clock < t0 + token_ttl - SafetyMargin)
                   /\ token_ttl = 200 => ((pc'[t] = "ret") <=> (clock < t0 + 140))
                   /\ pc'[t] = "ret" => authCalls' = authCalls
                   /\ pc'[t] # "ret" => (pc'[t] = "post" /\ authCalls' = authCalls + 1)
          /\ (pc[t] = "ret" /\ pc'[t] = "done" /\ serial[t] = 0)
             => (result'[t] = token /\ HoldsLatest) ]_vars

\* C16 witness: with ttl = 200 and the first token issued at t0, one
\* get_token() returned that token from the cache and a later one, made at
\* exactly t0 + 140, refreshed
C16_Witness ==
    /\ token_ttl = 200 /\ AllGot(Tasks)
    /\ \E t, u \in Tasks :
          /\ serial[t] = 0 /\ result[t] = TokenText(1)
          /\ serial[u] = 2 /\ result[u] = TokenText(2)
    /\ Len(issued) = 2
    /\ issued[2][2] - token_ttl = (issued[1][2] - token_ttl) + 140

\* C17: a get_token() / get_token_sync() that finds a fresh token, and is not
\* forced, goes on to return with no token-issuance call and without touching
\* credential or expiry, and what it returns is the cached credential; a
\* refresh is started only by a forced call or a failed freshness check.
C17_FreshGetIsPure ==
    [][ \A c \in SeqCallers :
          /\ ( /\ pc[c] \in {"idle", "wait", "take"}
               /\ pc'[c] \in {"ret", "post", "failed"}
               /\ op'[c] \in {"get", "force"} )
             => /\ (op'[c] = "get" /\ is_token_valid)
                   => /\ pc'[c] = "ret"
                      /\ authCalls' = authCalls
                /\ pc'[c] = "post" => (op'[c] = "force" \/ ~is_token_valid)
                /\ token' = token /\ token_expires_at' = token_expires_at
          /\ (pc[c] = "ret" /\ pc'[c] = "done" /\ serial[c] = 0)
             => /\ result'[c] = token /\ TruthyStr(token) /\ HoldsLatest
                /\ token' = token /\ token_expires_at' = token_expires_at
                /\ authCalls' = authCalls /\ issued' = issued ]_vars

\* C17 witness: after one refresh, a get_token() and a get_token_sync() have
\* both returned the cached token; one token-issuance call was made in all
C17_Witness ==
    /\ authCalls = 1 /\ Len(issued) = 1
    /\ \E t \in MixedTasks, h \in MixedThreads :
          /\ op[t] = "get" /\ pc[t] = "done" /\ serial[t] = 0
          /\ op[h] = "get" /\ pc[h] = "done" /\ serial[h] = 0
          /\ result[t] = issued[1][1] /\ result[h] = issued[1][1]
    /\ <<token, token_expires_at>> = issued[1]

\* C20: invalidate_token() / invalidate_token_sync(), in whatever state the
\* cache is, makes no token-issuance call, does not raise, and leaves
\* credential and expiry both absent when it returns; so a second call in a
\* row, or a call on an Empty cache, ends in the same Empty state.
C20_InvalidateEmpties ==
    [][ \A c \in SeqCallers :
          /\ (op'[c] = "inval" /\ pc'[c] # pc[c])
             => /\ authCalls' = authCalls
                /\ pc'[c] # "failed"
                /\ serial'[c] = 0
          /\ (op[c] = "inval" /\ pc[c] # "done" /\ pc'[c] = "done")
             => /\ token' = NoneStr /\ token_expires_at' = NoneNum
                /\ ~IsTokenValidAt(token', token_expires_at', clock') ]_vars

\* C20 witness: a token was cached, then two invalidations in a row, one on
\* each surface, have returned and the cache is Empty
C20_Witness ==
    /\ issued # <<>>
    /\ \E t \in MixedTasks, h \in MixedThreads :
          /\ op[t] = "inval" /\ pc[t] = "done"
          /\ op[h] = "inval" /\ pc[h] = "done"
    /\ \A c \in SeqCallers : op[c] = "get" => serial[c] = 1
    /\ token = NoneStr /\ token_expires_at = NoneNum

-----------------------------------------------------------------------------
(* Forced refresh and the guard under failure *)

\* C18: N tasks call get_token(force_refresh=True) together, all but the
\* first while a refresh is in flight, and all return; then one
\* token-issuance call was made in all and all returned its token.
C18_ForcedSingleFlight ==
    ( /\ \A t \in Tasks : op[t] = "force" /\ pc[t] = "done"
      /\ Cardinality(Overlapped(Tasks)) >= NumTasks - 1 )
        => /\ authCalls = 1
           /\ \A t, u \in Tasks : result[t] = result[u]

-----------------------------------------------------------------------------
(* Pure reads *)

\* C21: is_authenticated() returns true exactly when the cache holds a
\* credential and now < expiry - 60, and the call changes neither credential
\* nor expiry and makes no token-issuance call, in every cache state (Empty,
\* fresh, stale, refresh in flight).
C21_IsAuthenticatedPure ==
    [][ (observed.via = "none" /\ observed'.via = "is_authenticated")
          => /\ observed'.is_valid <=>
                    ( /\ token # NoneStr /\ token_expires_at # NoneNum
                      /\ clock < token_expires_at - SafetyMargin )
             /\ token' = token /\ token_expires_at' = token_expires_at
             /\ authCalls' = authCalls /\ pc' = pc ]_vars

\* C21 witness: is_authenticated() has answered False on a cache that holds a
\* credential whose expiry is no more than 60 s away
C21_Witness ==
    /\ observed.via = "is_authenticated" /\ ~observed.is_valid
    /\ token # NoneStr /\ token_expires_at # NoneNum
    /\ clock >= token_expires_at - SafetyMargin
    /\ clock < token_expires_at

-----------------------------------------------------------------------------
(* Error statuses *)

\* The error statuses a call's transport attempts were answered with
AnsweredStatuses == {s \in ErrorStatuses : Positions(ToString(s)) # {}}

\* C25: a response with a non-success status s surfaces to the caller of
\* HttpAdapter.request / request_sync as the API failure of the kind mapped
\* to s (HTTPError for a status without a kind of its own), carrying status
\* code s.
C25_StatusSurfacesAsMappedKind ==
    \A s \in AnsweredStatuses :
        reqPc = "raised"
            => /\ reqRaised.kind = ExceptionClass(s)
               /\ reqRaised.status_code = s

-----------------------------------------------------------------------------
(* Token issuance *)

\* The callers whose get_token / get_token_sync call has returned a value
Returned == {c \in SeqCallers : pc[c] = "done" /\ op[c] \in {"get", "force"}}

\* The caller whose token-issuance call was the last one, once
\* _refresh_token has dealt with what the post gave it
LastIssuer ==
    {c \in SeqCallers : /\ serial[c] = authCalls /\ reqCalls = authCalls
                        /\ authCalls > 0 /\ reqPc = "idle"}

\* C22: a token-issuance response whose string is empty after unquoting is a
\* failure: the call raises the authentication failure and stores nothing;
\* no call returns an empty or absent credential, and whenever the cache
\* counts as valid its credential is a non-empty string.
C22_EmptyTokenIsFailure ==
    /\ \A c \in Returned : TruthyStr(result[c]) /\ result[c] # NoneStr
    /\ is_token_valid => (TruthyStr(token) /\ token # NoneStr)
    /\ \A i \in 1..Len(issued) : TruthyStr(issued[i][1])
    /\ token # <<>>
    /\ \A c \in LastIssuer :
          reqLog[Len(reqLog)] = "empty string"
              => /\ pc[c] = "failed"
                 /\ reqRaised.kind = "AuthenticationError"
                 /\ result[c] = NoneStr

\* C22 witness: a forced refresh was answered with a string that is empty
\* after unquoting; the call raised the authentication failure while an
\* earlier call's credential is still cached
C22_Witness ==
    \E c \in LastIssuer :
        /\ pc[c] = "failed" /\ op[c] = "force"
        /\ reqLog[Len(reqLog)] = "empty string"
        /\ reqRaised =
              Exc("AuthenticationError", NoneNum,
                  <<"Empty token received from Magento API">>)
        /\ Returned # {} /\ token # NoneStr

\* C28: at no time does a caller sleep between attempts of a transport call
\* while holding the token cache's guard (the lock of the cooperative
\* surface, the flag of the blocking one) or the rate limiter's guard.
C28_NoSleepUnderGuard ==
    reqPc = "sleep"
        => /\ token_lock = NoOne /\ ~sync_token_lock
           /\ rl_lock = NoOne

\* The token-issuance calls made to the adapter, per get_token call that got
\* as far as _refresh_token's post
IssuanceCallers == {c \in SeqCallers : serial[c] > 0}

\* C30: one get_token / get_token_sync call issues at most one
\* token-issuance request to the HTTP adapter; when the request fails the
\* call raises an authentication failure that names the underlying cause, and
\* makes no second request.
C30_OneIssuanceRequest ==
    [][ /\ reqCalls' <= Cardinality(IssuanceCallers')
        /\ \A c, d \in IssuanceCallers' : serial'[c] = serial'[d] => c = d
        /\ (reqPc = "raised" /\ reqPc' = "idle")
              => /\ \A c \in SeqCallers : pc[c] = "post" => pc'[c] = "failed"
                 /\ reqRaised'.kind = "AuthenticationError"
                 /\ Str(reqRaised) # <<>>
                 /\ SubSeq(reqRaised'.message, 2, Len(reqRaised'.message))
                        = Str(reqRaised)
                 /\ reqCalls' = reqCalls /\ authCalls' = authCalls
        /\ \A c \in SeqCallers :
              pc[c] = "failed" => (pc'[c] = "failed" /\ serial'[c] = serial[c])
      ]_vars

\* C30 witness: the adapter used up its retries on timeouts, and the
\* get_token call that asked for the token has raised the authentication
\* failure carrying the timeout's message, after one request
C30_Witness ==
    \E c \in LastIssuer :
        /\ pc[c] = "failed" /\ authCalls = 1 /\ reqCalls = 1
        /\ max_retries > 0 /\ Len(reqSleeps) = max_retries
        /\ reqRaised =
              Exc("AuthenticationError", NoneNum,
                  <<"Failed to obtain access token", "Request timeout",
                    "TimeoutException">>)

-----------------------------------------------------------------------------
(* Burst and wait *)

\* The callers of acquire(1) / acquire_sync(1) that have called, and those
\* that have returned
CalledForOne == {c \in RlCallers : want[c] = 1 /\ ret[c] # "none"}
AdmittedForOne == {c \in CalledForOne : ret[c] = "admitted"}

\* C23: from a full bucket of capacity C and rate r, C consecutive acquire(1)
\* calls made with no time elapsing return without waiting, and the (C+1)-th
\* does not return before 1/r seconds have elapsed; in general the units
\* admitted never exceed C plus what r refills in the time elapsed.
C23_BurstThenWait ==
    /\ (clock = StartTime /\ Cardinality(CalledForOne) <= capacity
           /\ \A c \in RlCallers : want[c] <= 1)
          => \A c \in RlCallers : rpc[c] # "sleep"
    /\ Cardinality(AdmittedForOne) > capacity
          => (clock - StartTime) * requests_per_minute >= PerMinute
    /\ admitted60 <= Admissible
    /\ \A c \in RlCallers : rpc[c] = "sleep" => ~Enough(tokens60, want[c])

\* C23 witness: capacity 2, one token a second; three consecutive acquire(1)
\* calls have returned, the third after waiting the one second
C23_Witness ==
    /\ capacity = 2 /\ requests_per_minute = PerMinute
    /\ Cardinality(AdmittedForOne) = 3
    /\ clock = StartTime + 1


\* C24: every acquire(n) / acquire_sync(n) call with n >= 1 eventually
\* returns as the clock advances.  The refill never takes the bucket above
\* capacity (C6), so a call can only return if a full bucket holds what it
\* asks for: no caller is put to sleep waiting for more than that.
C24_WaitCanEnd ==
    \A c \in RlCallers :
        rpc[c] = "sleep" => Enough(capacity * PerMinute, want[c])

-----------------------------------------------------------------------------
(* should_retry *)

\* The loop has caught a failure in this step
CaughtNow ==
    /\ Len(failures') = Len(failures) + 1
    /\ Caught(failures'[Len(failures')].kind)

\* C26: should_retry(failure, attempt) is false whenever attempt >=
\* max_attempts or the failure's kind is not in the retryable set, and true
\* otherwise: the loop that has caught a failure goes on exactly when neither
\* is the case.
C26_ShouldRetryTable ==
    [][ CaughtNow =>
          LET k == failures'[Len(failures')].kind
          IN /\ (rtPc' \in {"sleep", "next"}) <=>
                    ~( \/ attempt >= strategy.max_attempts
                       \/ ~\E cls \in strategy.retryable_exceptions :
                              IsInstance(k, cls) )
             /\ (rtPc' \notin {"sleep", "next"}) => rtPc' = "raised"
      ]_vars

\* C26 witness: should_retry answered true for a first failure and false,
\* for the attempt number alone, for the last one
C26_Witness ==
    /\ rtPc = "raised" /\ strategy.max_attempts >= 2
    /\ Len(failures) = strategy.max_attempts
    /\ \A i \in 1..Len(failures) :
          \E cls \in strategy.retryable_exceptions :
              IsInstance(failures[i].kind, cls)
    /\ raised.attempt = strategy.max_attempts

-----------------------------------------------------------------------------
(* Cancellation *)

\* The tasks cancelled while they waited in get_token or in acquire
Cancelled ==
    {t \in MixedTasks : pc[t] = "cancelled"}
    \cup {t \in RlTasks : rpc[t] = "cancelled"}

-----------------------------------------------------------------------------
(* The two surfaces *)

\* Both runs of the sequence are over
BothRun ==
    /\ first # NoOutcome
    /\ \A i \in 1..NumThreads : pc[<<"thread", i>>] \in {"done", "failed"}

\* C29: a sequence of non-overlapping operations (get, forced get,
\* invalidate, clock advance, transport success or failure) gives, on the
\* blocking surface, the returned tokens and failures, the number of
\* token-issuance calls and the final credential and expiry it gave on the
\* cooperative surface.
C29_SurfacesAgree == BothRun => Outcome("thread") = first

\* C29 witness: both runs are over of a sequence whose first operation got a
\* token and whose second, a forced refresh after a clock advance, failed
C29_Witness ==
    /\ BothRun
    /\ script[1].op = "get" /\ script[2].op = "force" /\ script[2].ticks > 0
    /\ first.ends[1][1] = "done" /\ first.ends[2][1] = "failed"
    /\ first.calls = 2 /\ first.cache[1] # NoneStr

-----------------------------------------------------------------------------
(* TokenBucket.consume *)

\* C31: a consume(n) that returns False subtracts nothing, so that tokens is
\* what the refill step made it; a consume(n) that returns True takes exactly
\* n from the refilled tokens.
C31_ConsumeFrame ==
    [][ LET c == BucketUser
        IN (phase[c] = "consume" /\ rpc'[c] # rpc[c]) =>
           /\ rpc[c] = "r2"
                => tokens60' = Min(capacity * PerMinute,
                                   tokens60 + (now_l[c] - last_refill)
                                                  * requests_per_minute)
           /\ rpc[c] \in {"r1", "r3"} => tokens60' = tokens60
           /\ rpc[c] = "chk"
                => /\ tokens60' = tokens60
                   /\ (ret'[c] = "False") <=> (tokens60 < want[c] * PerMinute)
           /\ rpc[c] = "sub"
                => /\ tokens60' = tokens60 - want[c] * PerMinute
                   /\ tokens60' >= 0
                   /\ ret'[c] = "True"
      ]_vars

\* C31 witness: after a refill at a later time, consume(2) has returned False
\* on a bucket holding one token, which is still there
C31_Witness ==
    /\ rpc[BucketUser] = "idle" /\ ret[BucketUser] = "False"
    /\ phase[BucketUser] = "consume" /\ want[BucketUser] = 2
    /\ clock > StartTime /\ last_refill = clock
    /\ tokens60 = PerMinute


\* C32: consume(n) and wait_time(n) reject n <= 0 as a caller error: such a
\* call returns no value, and leaves tokens within what the bucket can hold.
C32_NonPositiveRejected ==
    /\ want[BucketUser] <= 0
          => ret[BucketUser] \notin {"True", "False", "waited"}
    /\ tokens60 <= capacity * PerMinute


-----------------------------------------------------------------------------
(* The token taken from a response *)

\* s without one layer of surrounding double quotes, when it has one
StripOne(s) ==
    IF Len(s) >= 2 /\ s[1] = Quote /\ s[Len(s)] = Quote
    THEN SubSeq(s, 2, Len(s) - 1)
    ELSE s

\* C33: the token a refresh stores is the issued string without exactly one
\* layer of surrounding double quotes, when it has one, and otherwise as
\* issued, for a bare string and for a content field, on either surface.
C33_OneLayerRemoved ==
    [][ \A k \in {"task", "thread"}, i \in 1..NumThreads :
          LET c == <<k, i>>
          IN (pc[c] = "post" /\ pc'[c] = "set_exp") =>
                token' = StripOne(ResponseAs(serial[c], script[i].answer).text)
      ]_vars


-----------------------------------------------------------------------------
(* ExponentialBackoff.get_delay *)

\* C34: the delay an ExponentialBackoff sleeps after attempt k >= 1 is
\* min(base_delay * multiplier^(k-1), max_delay) with jitter off, lies between
\* 0.5 and 1.0 times that value with jitter on, and never exceeds max_delay.
C34_ExponentialDelay ==
    strategy.kind = "exponential" =>
        \A k \in 1..Len(sleeps) :
            LET full == Seconds(Min(strategy.base_delay
                                      * Pow(strategy.multiplier, k - 1),
                                    strategy.max_delay))
            IN /\ ~strategy.jitter => sleeps[k] = full
               /\ strategy.jitter => (2 * sleeps[k] >= full /\ sleeps[k] <= full)
               /\ sleeps[k] <= Seconds(strategy.max_delay)

\* C34 witness: with jitter on, attempt 1 was followed by half of 1s and
\* attempt 2 by a delay strictly between 1s and 2s
C34_Witness ==
    /\ strategy.kind = "exponential" /\ strategy.jitter
    /\ Len(sleeps) = 2
    /\ 2 * sleeps[1] = Seconds(1)
    /\ sleeps[2] > Seconds(1) /\ sleeps[2] < Seconds(2)


-----------------------------------------------------------------------------
(* Settings: the encryption key *)

\* The call passed no key: the argument was left out, or was None
NoKey == settings.encryption_key = NoneNum

\* C35: constructing Settings fails with a validation error when
\* enable_encryption is true and no key is passed, and when a key is passed
\* whose length is not 32; it succeeds when enable_encryption is false and no
\* key is passed, and when a key of 32 characters is passed.
C35_EncryptionKeyValidated ==
    settings.built \in {"ok", "ValidationError"} =>
        /\ (settings.enable_encryption /\ NoKey)
              => settings.built = "ValidationError"
        /\ (~NoKey /\ settings.encryption_key # 32)
              => settings.built = "ValidationError"
        /\ (~settings.enable_encryption /\ NoKey) => settings.built = "ok"
        /\ settings.encryption_key = 32 => settings.built = "ok"


-----------------------------------------------------------------------------
(* The attempt loop of HttpAdapter.request / request_sync *)

\* What _handle_httpx_error raises: the network-level failures
NetworkFailures == {"TimeoutError", "ConnectionError", "NetworkError"}

\* C36: with max_retries = R, a call whose every attempt failed at the network
\* level made exactly R+1 attempts, slept 2^k seconds after failed attempt k
\* (k = 0..R-1) and did not sleep after the last; an attempt answered with a
\* non-success status, whatever the status, is the call's last attempt, and
\* its only one when no network failure came before.
C36_AttemptsAndSleeps ==
    /\ (reqPc = "raised" /\ reqRaised.kind \in NetworkFailures)
          => /\ Cardinality(Positions("transport")) = max_retries + 1
             /\ reqSleeps = [k \in 1..max_retries |-> 2^(k - 1)]
             /\ reqLog[Len(reqLog)] = "transport"
    /\ \A s \in AnsweredStatuses :
          /\ reqPc = "raised"
          /\ Positions(ToString(s)) = {Len(reqLog)}
          /\ Cardinality(Positions("transport")) = Len(reqSleeps) + 1

\* C36 witness: with max_retries = 2 a call gave up on a network failure
\* after three attempts, having slept 1s and 2s
C36_Witness ==
    /\ max_retries = 2
    /\ reqPc = "raised" /\ reqRaised.kind \in NetworkFailures
    /\ Cardinality(Positions("transport")) = 3
    /\ reqSleeps = <<1, 2>>


-----------------------------------------------------------------------------
(* Invalidation while a refresh is in flight *)

\* An invalidation has returned
InvalidationReturned == \E c \in Callers : op[c] = "inval" /\ pc[c] = "done"

\* C37: once an invalidation has returned, the cache does not come to hold
\* what a refresh that was in flight when the invalidation was requested
\* stores; here that refresh is the first caller's, of issuance 1, whichever
\* surface it and the invalidation are on.
C37_InFlightNeverRepopulates ==
    InvalidationReturned
        => token # TokenText(1)


-----------------------------------------------------------------------------
(* A retried operation that succeeds *)

\* C38: when execute_async / execute_sync has returned, on attempt k, func
\* was invoked exactly k <= max_attempts times, the k-1 invocations before
\* failed with retryable failures and were each followed by one delay, none
\* of those failures was raised, and nothing more is invoked afterwards.
C38_SuccessOnAttemptK ==
    /\ [](rtPc = "returned"
            => /\ invocations = attempt
               /\ invocations <= strategy.max_attempts
               /\ Len(failures) = invocations - 1
               /\ \A i \in 1..Len(failures) :
                     Retryable(failures[i]) /\ failures[i].attempt = i
               /\ Len(sleeps) = invocations - 1
               /\ raised = NoExc)
    /\ [][rtPc = "returned"
            => (rtPc' = "returned" /\ invocations' = invocations)]_vars

\* C38 witness: func succeeded on its third invocation, after two retryable
\* failures and two delays
C38_Witness ==
    /\ rtPc = "returned" /\ invocations = 3
    /\ Len(failures) = 2 /\ AllRetryable
    /\ Len(sleeps) = 2 /\ raised = NoExc


-----------------------------------------------------------------------------
(* A task that waits inside acquire *)

\* C39: while a task sleeps inside acquire(n) waiting for tokens it holds the
\* limiter's lock: every other task that has called acquire is kept outside
\* the loop and none is admitted, also when the bucket holds what the other
\* task asks for.
C39_SleeperHoldsLock ==
    /\ [](\A a \in RlTasks :
            rpc[a] = "sleep"
                => /\ rl_lock = a
                   /\ \A b \in RlTasks \ {a} :
                         rpc[b] \in {"idle", "lockwait", "done"})
    /\ [][\A a \in RlTasks, b \in RlTasks :
            (a # b /\ rpc[a] = "sleep" /\ ret[b] # "admitted")
                => ret'[b] # "admitted"]_vars

\* C39 witness: a task sleeps waiting for two tokens while another task, that
\* asked for the one token the bucket holds, waits for the lock
C39_Witness ==
    \E a \in RlTasks, b \in RlTasks :
        /\ rpc[a] = "sleep" /\ want[a] = 2
        /\ rpc[b] = "lockwait" /\ want[b] = 1
        /\ Enough(tokens60, want[b])


-----------------------------------------------------------------------------
(* A lifetime no longer than the safety margin *)

\* The get_token / get_token_sync calls that have run the guarded body
RanBody ==
    {c \in Callers : /\ op[c] \in {"get", "force"}
                     /\ pc[c] \in {"post", "set_exp", "ret", "done", "failed"}}

\* C40: with token_ttl of 60 seconds (or less) no token is ever valid:
\* is_authenticated() is false in every state, and every get_token /
\* get_token_sync call of a provider that has an adapter makes a
\* token-issuance request of its own.
C40_ShortTtlNeverValid ==
    token_ttl <= 60 =>
        /\ ~is_token_valid
        /\ http_adapter =>
              /\ \A c \in RanBody : serial[c] > 0
              /\ \A c \in RanBody, d \in RanBody : c # d => serial[c] # serial[d]
              /\ authCalls = Cardinality(RanBody)

\* C40 witness: with token_ttl = 60 two get_token calls made at the same
\* instant have returned, each the token of its own issuance
C40_Witness ==
    /\ token_ttl = TtlShort /\ clock = StartTime
    /\ \E c \in Callers, d \in Callers :
          /\ op[c] = "get" /\ pc[c] = "done" /\ result[c] = TokenText(1)
          /\ op[d] = "get" /\ pc[d] = "done" /\ result[d] = TokenText(2)

====
